---- MODULE Spec2Model ----
(***************************************************************************)
(* Agent orchestration core of Gemini-Cli-py: the history curator, the     *)
(* conversation graph (turn loop), the tool execution graph (scheduler)    *)
(* and the websocket session handlers, as state machines.                  *)
(***************************************************************************)
EXTENDS Integers, Sequences, FiniteSets, TLC

(***************************************************************************)
(* Bounds of the model.                                                    *)
(***************************************************************************)
\* longest comprehensive history handed to the curator in SpecCurate
MaxHistoryLen == 3
\* chunks the content generator yields over one conversation task
MaxChunks == 2
\* generate_content_stream calls the model explores in one conversation task
MaxModelCalls == 2
\* events emitted through the bus in SpecBus
MaxEmits == 3
\* subscribers of the bus in SpecBus
MaxSubscribers == 2
\* user_input messages of one session
MaxUserInputs == 2
\* sessions of one process in SpecSessions
MaxSessions == 2
\* requests handed to the tool execution graph in SpecSchedule
MaxRequests == 2
\* invocations of the work under a retry policy that are counted
MaxWorkCalls == 7

(***************************************************************************)
(* Program constants.                                                      *)
(***************************************************************************)
\* GeminiClient.MAX_TURNS, the default of send_message_stream's `turns`
MAX_TURNS == 100
\* maxsize of asyncio.Queue() as the EventEmitter creates its queues
QueueMaxsize == 0

(***************************************************************************)
(* Content: a turn {role, parts}.  A part is one of the shapes the code    *)
(* tells apart:                                                            *)
(*   "text"              {"text": "<non-empty>"}                           *)
(*   "empty_text"        {"text": ""}                                      *)
(*   "thought"           {"thought": True, "text": "<summary>"}            *)
(*   "empty_obj"         {}                                                *)
(*   "function_call"     {"function_call": {...}}                          *)
(*   "inline_data"       {"inline_data": {...}}                            *)
(*   "function_response" {"functionResponse": {...}}                       *)
(***************************************************************************)
PartKinds ==
    {"text", "empty_text", "thought", "empty_obj", "function_call",
     "inline_data", "function_response"}

Roles == {"user", "model", "function"}

Turn(role, parts) == [role |-> role, parts |-> parts]

\* `not part` : the empty dict is falsy
PartIsFalsy(part) == part = "empty_obj"

\* `part.get("thought")`
PartThought(part) == part = "thought"

\* `part.get("text") == ""`
PartTextIsEmptyString(part) == part = "empty_text"

\* is_valid_content without the parts-is-empty test
IsValidContent_NoEmptyTest(content) ==
    \A k \in 1..Len(content.parts) :
        /\ ~PartIsFalsy(content.parts[k])
        /\ ~(~PartThought(content.parts[k])
             /\ PartTextIsEmptyString(content.parts[k]))

\* is_valid_content
IsValidContent(content) ==
    /\ Len(content.parts) > 0
    /\ \A k \in 1..Len(content.parts) :
        /\ ~PartIsFalsy(content.parts[k])
        /\ ~(~PartThought(content.parts[k])
             /\ PartTextIsEmptyString(content.parts[k]))

(***************************************************************************)
(* State.                                                                  *)
(***************************************************************************)
VARIABLES
    \* extract_curated_history: its argument, its locals and its position
    comprehensive_history,  \* the argument
    scan_i,                 \* local i (1-based here)
    curated_history,        \* local curated_history
    cur_pc,                 \* "idle" | "scan" | "done"
    \* the curator applied to its own result
    cur_pass,               \* 0: called by call_model_node; 1, 2: first, second pass
    curated_first           \* result of the first pass

VARIABLES
    \* session (websocket/server.py, core/app.py)
    driver,                 \* "none" | "server" | "client": who runs the graph
    task,                   \* conversation task: "none" | "running" |
                            \*   "cancelling" | "cancelled" | "done"
    cancel_signal,          \* CancelSignal._event of the caller's signal
    approval_mode,          \* config.get_approval_mode()
    events,                 \* events emitted through the EventEmitter, in order
    \* ConversationState and the position of the graph run
    pc,                     \* node about to run, "end" or "failed"
    history,
    current_user_input,     \* "none" | "input" | "continue"
    pending_tool_calls,
    max_turns,
    model_calls,            \* generate_content_stream calls of this task
    \* call_model_node's locals while the stream is open
    model_parts,
    stream_tool_calls,
    stream_chunks,          \* chunks received from the open stream
    chunks,                 \* chunks received in this task
    \* ToolExecutionState and the position of the tool graph run
    tg_pc,                  \* "idle" | "schedule_tools" | "execute_tools" |
                            \*   "interrupted" | "returned"
    tg_caller,              \* "none" | "conv" | "direct"
    incoming_requests,
    tool_calls,
    completed               \* execute_tools_node: results of the gathered tasks

VARIABLES
    \* one application of a compression function
    cmp_pc,                 \* "idle" | "start" | "returned" | "done"
    cmp_fn,                 \* "try_compress_chat" | "compress_history_node"
    cmp_history,            \* the history the function works on
    cmp_before,             \* that history before the call
    cmp_result,             \* "none" | "None" | "info" | "raised" | "state"
    cmp_original,           \* original_token_count, -1 while not counted
    cmp_new,                \* new_token_count, -1 while not counted
    cmp_summary,            \* outcome of the summarization call
    cmp_events              \* events yielded by the caller

cur_vars ==
    <<comprehensive_history, scan_i, curated_history, cur_pc, cur_pass,
      curated_first>>

session_vars == <<driver, task, cancel_signal, approval_mode, events>>

conv_vars ==
    <<pc, history, current_user_input, pending_tool_calls, max_turns,
      model_calls>>

stream_vars == <<model_parts, stream_tool_calls, stream_chunks, chunks>>

tool_vars == <<tg_pc, tg_caller, incoming_requests, tool_calls, completed>>

main_vars == <<session_vars, conv_vars, stream_vars, tool_vars>>

VARIABLES
    \* an EventEmitter and its consumers
    bus_pc,                 \* "idle" | "open"
    bus_websocket,          \* self.websocket is set
    bus_emitted,            \* events in the order emit was called
    bus_sending,            \* per producer: the event whose send_json is
                            \*   awaited, 0 for none
    bus_ws,                 \* events handed to websocket.send_json
    bus_queue,              \* events put on self._event_queue
    bus_subs,               \* self._subscribers: per subscriber the events
                            \*   emitted before it subscribed and the events
                            \*   put on its queue
    bus_done                \* events whose emit has returned

cmp_vars ==
    <<cmp_pc, cmp_fn, cmp_history, cmp_before, cmp_result, cmp_original,
      cmp_new, cmp_summary, cmp_events>>

bus_vars ==
    <<bus_pc, bus_websocket, bus_emitted, bus_sending, bus_ws, bus_queue,
      bus_subs, bus_done>>

VARIABLES
    user_inputs,            \* user_input messages the session has handled
    next_task               \* the task a user_input created while the task
                            \*   before it was running: "none" | "created" |
                            \*   "running"

input_vars == <<user_inputs, next_task>>

VARIABLES
    \* the sessions of one process
    ses_pc,                 \* "idle" | "open"
    sessions,               \* session_manager._sessions (its keys)
    ses_stage,              \* per session: how far create_session has come
    ses_tool,               \* per session: the DiscoveredMCPTool of its
                            \*   registry, "none" | "trusted" | "untrusted"
    server_statuses,        \* status_manager.server_statuses
    discovery_state,        \* status_manager.discovery_state
    ses_actor               \* the session that took the last step

ses_vars ==
    <<ses_pc, sessions, ses_stage, ses_tool, server_statuses,
      discovery_state, ses_actor>>

VARIABLES
    current_tool_execution_state,   \* GeminiClient._current_tool_execution_state:
                                    \*   whether one is stored, and its tool_calls
    confirmation            \* the tool confirmation response handled, and how:
                            \*   [call_id, outcome, result], result "none"
                            \*   while no response has been handled

conf_vars == <<current_tool_execution_state, confirmation>>

VARIABLES
    \* a tool execution graph invoked on requests with args
    sch_pc,                 \* "idle" | "schedule_tools" | "interrupted"
                            \*   | "execute_tools" | "returned"
    sch_mode,               \* config.get_approval_mode()
    sch_requests,           \* state.incoming_requests
    sch_calls,              \* state.tool_calls
    sch_executed,           \* call ids whose tool.execute has been called
    sch_events              \* events emitted through context.emitter

sch_vars ==
    <<sch_pc, sch_mode, sch_requests, sch_calls, sch_executed, sch_events>>

VARIABLES
    \* one call under a retry policy
    rt_pc,                  \* "idle" | "loop" | "returned" | "raised"
    rt_impl,                \* "wrapper": gemini_cli_core/utils/retry.py,
                            \*   "function": utils/retry.py
    on_persistent_429,      \* a fallback handler was passed
    auth_type,              \* "None" or the auth type passed
    attempt,                \* attempts begun (the loop index + 1 in
                            \*   utils/retry.py)
    current_delay,          \* current_delay / delay, in ms
    consecutive_429_count,  \* consecutive_429_count / persistent_429_count
    rt_calls,               \* invocations of the wrapped work, counted up to
                            \*   MaxWorkCalls
    rt_since_reset,         \* invocations since the handler last gave a model
    rt_last                 \* what the last attempt led to

rt_vars ==
    <<rt_pc, rt_impl, on_persistent_429, auth_type, attempt, current_delay,
      consecutive_429_count, rt_calls, rt_since_reset, rt_last>>

\* the variables added to the session's, the conversation's and the tools'
aux_vars ==
    <<cmp_vars, bus_vars, input_vars, ses_vars, conf_vars, sch_vars, rt_vars>>

\* what the steps of one group leave alone
not_cmp_vars ==
    <<cur_vars, main_vars, bus_vars, input_vars, ses_vars, conf_vars, sch_vars,
      rt_vars>>
not_bus_vars ==
    <<cur_vars, main_vars, cmp_vars, input_vars, ses_vars, conf_vars, sch_vars,
      rt_vars>>
not_ses_vars ==
    <<cur_vars, main_vars, cmp_vars, bus_vars, input_vars, conf_vars, sch_vars,
      rt_vars>>
not_input_vars == <<cmp_vars, bus_vars, ses_vars, conf_vars, sch_vars, rt_vars>>
not_conf_vars == <<cmp_vars, bus_vars, input_vars, ses_vars, sch_vars, rt_vars>>
not_sch_vars ==
    <<cur_vars, main_vars, cmp_vars, bus_vars, input_vars, ses_vars, conf_vars,
      rt_vars>>
not_rt_vars ==
    <<cur_vars, main_vars, cmp_vars, bus_vars, input_vars, ses_vars, conf_vars,
      sch_vars>>

vars == <<cur_vars, main_vars, aux_vars>>

(***************************************************************************)
(* extract_curated_history (chat_nodes.py 101-147).                        *)
(***************************************************************************)
\* first index at or after i whose turn is not a model turn (inner while)
RunEnd(H, i) ==
    CHOOSE j \in i..(Len(H) + 1) :
        /\ \A k \in i..(j - 1) : H[k].role = "model"
        /\ (j = Len(H) + 1 \/ H[j].role # "model")

\* what the else-branch leaves in curated_history, keeping the run although
\* it popped the user turn
AfterModelRun_PopAndKeep(out, run, is_valid) ==
    IF is_valid THEN out \o run
    ELSE IF Len(out) > 0 THEN SubSeq(out, 1, Len(out) - 1) \o run
    ELSE out \o run

\* what the else-branch leaves in curated_history (lines 141-145)
AfterModelRun(out, run, is_valid) ==
    IF is_valid THEN out \o run
    ELSE IF Len(out) > 0 THEN SubSeq(out, 1, Len(out) - 1)
    ELSE out

\* lines 118-123: the call
StartCuration(H, pass) ==
    /\ comprehensive_history' = H
    /\ scan_i' = 1
    /\ curated_history' = <<>>
    /\ cur_pc' = IF Len(H) = 0 THEN "done" ELSE "scan"
    /\ cur_pass' = pass

\* lines 126-128: a user turn is appended
CurateUserTurn ==
    /\ cur_pc = "scan"
    /\ scan_i <= Len(comprehensive_history)
    /\ comprehensive_history[scan_i].role = "user"
    /\ curated_history' = Append(curated_history, comprehensive_history[scan_i])
    /\ scan_i' = scan_i + 1
    /\ UNCHANGED <<comprehensive_history, cur_pc, cur_pass, curated_first>>
    /\ UNCHANGED main_vars
    /\ UNCHANGED aux_vars

\* lines 129-145: any other role; the inner loop consumes model turns only
CurateModelRun ==
    /\ cur_pc = "scan"
    /\ scan_i <= Len(comprehensive_history)
    /\ comprehensive_history[scan_i].role # "user"
    /\ LET j == RunEnd(comprehensive_history, scan_i)
           model_output == SubSeq(comprehensive_history, scan_i, j - 1)
           is_valid == \A k \in 1..Len(model_output) :
                           IsValidContent(model_output[k])
       IN /\ curated_history' =
                 AfterModelRun(curated_history, model_output, is_valid)
          /\ scan_i' = j
    /\ UNCHANGED <<comprehensive_history, cur_pc, cur_pass, curated_first>>
    /\ UNCHANGED main_vars
    /\ UNCHANGED aux_vars

\* line 125 false, line 147: return curated_history
CurateReturn ==
    /\ cur_pc = "scan"
    /\ scan_i > Len(comprehensive_history)
    /\ cur_pc' = "done"
    /\ UNCHANGED <<comprehensive_history, scan_i, curated_history, cur_pass,
                   curated_first>>
    /\ UNCHANGED main_vars
    /\ UNCHANGED aux_vars

\* the curator called on its own result
CurateAgain ==
    /\ cur_pc = "done"
    /\ cur_pass = 1
    /\ curated_first' = curated_history
    /\ StartCuration(curated_history, 2)
    /\ UNCHANGED main_vars
    /\ UNCHANGED aux_vars

CurateStep == CurateUserTurn \/ CurateModelRun \/ CurateReturn

(***************************************************************************)
(* Events (core/events.py EventEmitter.emit appends to every consumer).    *)
(***************************************************************************)
Event(type, value, call_id) ==
    [type |-> type, value |-> value, call_id |-> call_id]

\* emit_model_response(part["text"], streaming=True)
ContentEvent == Event("model_response", "text", -1)
\* emit_model_thinking(...)
ThoughtEvent == Event("model_thinking", "thought", -1)
\* emit(MODEL_RESPONSE, {"content": "Stream cancelled", "streaming": False})
StreamCancelledEvent == Event("model_response", "Stream cancelled", -1)
ErrorEvent == Event("error", "exception", -1)
TurnCompleteEvent == Event("turn_complete", "turn", -1)
\* send_message_stream yields the CHAT_COMPRESSED event (219-225)
ChatCompressedEvent == Event("chat_compressed", "counts", -1)

EventsOfType(evs, type) == {k \in 1..Len(evs) : evs[k].type = type}

\* the call ids carried by the events of one type, in emission order
CallIdsOfEvents(evs, type) ==
    LET sel == SelectSeq(evs, LAMBDA e : e.type = type)
    IN [k \in 1..Len(sel) |-> sel[k].call_id]

(***************************************************************************)
(* Tools and tool calls (tool_nodes.py, tool_execution_graph.py).          *)
(***************************************************************************)
\* names the model may put in a function_call part
ToolNames == {"read_file", "run_shell_command", "no_such_tool"}

\* tool_registry.get_tool(name) finds a tool
Registered(name) == name \in {"read_file", "run_shell_command", "write_file"}

\* tool.should_confirm_execute(args, None) returns confirmation details
ShouldConfirmExecute(name) == name = "run_shell_command"

ToolCallRequestInfo(call_id, name) == [call_id |-> call_id, name |-> name]

ToolCall(request, status) == [request |-> request, status |-> status]

TerminalStatuses == {"success", "error", "cancelled"}

NonTerminalStatuses ==
    {"validating", "scheduled", "awaiting_approval", "executing"}

AllTerminal(calls) ==
    \A k \in 1..Len(calls) : calls[k].status \in TerminalStatuses

\* hasattr(call_result, "response") and call_result.response: the terminal
\* records are the ones that carry a response
HasResponse(call) == call.status \in TerminalStatuses

\* a loop body that schedules every call of a registered tool
ScheduleOne_NoGate(req, mode) ==
    IF ~Registered(req.name) THEN ToolCall(req, "error")
    ELSE ToolCall(req, "scheduled")

\* schedule_tools_node, the body of its loop for one request (162-210)
ScheduleOne(req, mode) ==
    IF ~Registered(req.name) THEN ToolCall(req, "error")
    ELSE IF mode = "yolo" THEN ToolCall(req, "scheduled")
    ELSE IF ShouldConfirmExecute(req.name) THEN ToolCall(req, "awaiting_approval")
    ELSE ToolCall(req, "scheduled")

\* schedule_tools_node's new_tool_calls
NewToolCalls(reqs, mode) == [k \in 1..Len(reqs) |-> ScheduleOne(reqs[k], mode)]

\* should_wait_for_approval (269-278)
ShouldWaitForApproval(calls) ==
    \E k \in 1..Len(calls) : calls[k].status = "awaiting_approval"

\* execute_tools_node: completed_map.get(call_id, call) for every call; a later
\* completed call with the same call_id wins in the dict
CompletedMapGet(calls, done, call) ==
    LET hits == {k \in 1..Len(calls) :
                    /\ done[k] # "none"
                    /\ calls[k].request.call_id = call.request.call_id}
    IN IF hits = {} THEN call
       ELSE LET last == CHOOSE k \in hits : \A m \in hits : m <= k
            IN ToolCall(calls[last].request, done[last])

UpdatedToolCalls(calls, done) ==
    [k \in 1..Len(calls) |-> CompletedMapGet(calls, done, calls[k])]

\* the function-role turns appended for the records that carry a response
RECURSIVE FunctionTurns(_)
FunctionTurns(calls) ==
    IF calls = <<>> THEN <<>>
    ELSE (IF HasResponse(Head(calls))
          THEN <<Turn("function", <<"function_response">>)>>
          ELSE <<>>) \o FunctionTurns(Tail(calls))

(***************************************************************************)
(* Session entry points.                                                   *)
(***************************************************************************)
\* the history compression puts in place of the old one
SummaryHistory(summary_text) ==
    <<Turn("user", <<summary_text>>), Turn("model", <<"text">>)>>

\* _start_chat: the environment preamble and the model's acknowledgement
StartChatHistory(extra_history) ==
    <<Turn("user", <<"text">>), Turn("model", <<"text">>)>> \o extra_history

\* at an await of the event loop: the synchronous scan of the curator does
\* not yield, so no other coroutine runs while it is scanning
AtAwait == cur_pc # "scan"

\* server.py _handle_user_input (182-236): a new graph and a new task with
\* a fresh initial state, for a message that arrives when no task is running
\* (cancel() on a task that is over does nothing).  Once a task has been
\* created beside a running one, no later message is followed.
HandleUserInput ==
    /\ user_inputs < MaxUserInputs
    /\ IF user_inputs = 0 THEN driver = "none"
       ELSE driver = "server" /\ task \in {"done", "cancelled"}
                /\ next_task = "none"
    /\ user_inputs' = user_inputs + 1
    /\ next_task' = next_task
    /\ driver' = "server"
    /\ task' = "running"
    /\ pc' = "process_input"
    /\ history' = <<>>
    /\ current_user_input' = "input"
    /\ pending_tool_calls' = <<>>
    /\ max_turns' = MAX_TURNS
    /\ model_calls' = 0
    /\ UNCHANGED <<cancel_signal, approval_mode, events>>
    /\ UNCHANGED <<stream_vars, tool_vars, cur_vars>>
    /\ UNCHANGED not_input_vars

\* app.py send_message_stream (200-253) up to the graph run: `turns` is the
\* caller's bound, _try_compress_chat may replace the history
SendMessageStream(turns, compressed) ==
    /\ driver = "none"
    /\ driver' = "client"
    /\ max_turns' = turns
    /\ model_calls' = 0
    /\ pending_tool_calls' = <<>>
    /\ IF turns = 0
       THEN /\ task' = "done"
            /\ pc' = "end"
            /\ history' = StartChatHistory(<<>>)
            /\ current_user_input' = "none"
            /\ events' = events
       ELSE /\ task' = "running"
            /\ pc' = "process_input"
            /\ current_user_input' = "input"
            /\ IF compressed
               THEN /\ history' = StartChatHistory(
                            <<Turn("user", <<"text">>), Turn("model", <<"text">>)>>)
                    /\ events' = Append(events, ChatCompressedEvent)
               ELSE /\ history' = StartChatHistory(<<>>)
                    /\ events' = events
    /\ UNCHANGED <<cancel_signal, approval_mode>>
    /\ UNCHANGED <<stream_vars, tool_vars, cur_vars>>
    /\ UNCHANGED aux_vars

\* the graph task is running its nodes.  Every task of the server starts
\* from the same initial_state, so the tasks after the first repeat it:
\* they are followed to their start only, and when one is created while the
\* first is running, it is the first that is followed on.
GraphRunning ==
    /\ driver # "none"
    /\ IF next_task = "none" THEN user_inputs <= 1 ELSE TRUE
    /\ pc \notin {"none", "end", "failed", "stream_cancelled", "graph_cancelled"}

\* moments at which a cancellation request arrives: one request per run,
\* made while a model stream is open or a tool phase is in progress
CancelMoment ==
    /\ task = "running"
    /\ ~cancel_signal
    /\ pc \in {"streaming", "execute_tools"}

\* server.py _handle_user_input (205-236) for a message that arrives while
\* the task of the message before it is running: cancel() is called on that
\* task and the new task is created at once
HandleUserInputWhileRunning ==
    /\ driver = "server"
    /\ user_inputs < MaxUserInputs
    /\ next_task = "none"
    /\ CancelMoment
    /\ AtAwait
    /\ user_inputs' = user_inputs + 1
    /\ next_task' = "created"
    /\ task' = "cancelling"
    /\ UNCHANGED <<driver, cancel_signal, approval_mode, events>>
    /\ UNCHANGED <<conv_vars, stream_vars, tool_vars, cur_vars>>
    /\ UNCHANGED not_input_vars

\* the event loop runs the first step of the task created by
\* asyncio.create_task (233-236): it was scheduled after the wake-up that
\* delivers CancelledError to the task before it
NextTaskStart ==
    /\ next_task = "created"
    /\ task = "cancelled"
    /\ AtAwait
    /\ next_task' = "running"
    /\ UNCHANGED user_inputs
    /\ UNCHANGED <<cur_vars, main_vars>>
    /\ UNCHANGED not_input_vars

\* server.py _handle_cancel_stream (257-276): cancel the conversation task
\* and tell the front-end
HandleCancelStream ==
    /\ driver = "server"
    /\ CancelMoment
    /\ AtAwait
    /\ task' = "cancelling"
    /\ events' = Append(events, StreamCancelledEvent)
    /\ UNCHANGED <<driver, cancel_signal, approval_mode>>
    /\ UNCHANGED <<conv_vars, stream_vars, tool_vars, cur_vars>>
    /\ UNCHANGED aux_vars

\* server.py _run_conversation (310-311): CancelledError reaches the task at
\* its await and is logged.  With the graph iterated inside the task
\* (graphs/conversation.py EventAwareGraph.astream, 149-183) the error is
\* raised in the running node, which `except Exception` does not catch; with
\* the graph in a task of its own (core/graphs/conversation_graph.py
\* EventAwareGraph.astream, 267-295) the graph goes on.
RunConversationCancelled(inline) ==
    /\ task = "cancelling"
    /\ AtAwait
    /\ task' = "cancelled"
    /\ pc' = IF inline /\ GraphRunning
             THEN (IF pc = "streaming" THEN "stream_cancelled"
                   ELSE "graph_cancelled")
             ELSE pc
    /\ UNCHANGED <<driver, cancel_signal, approval_mode, events>>
    /\ UNCHANGED <<history, current_user_input, pending_tool_calls, max_turns,
                   model_calls>>
    /\ UNCHANGED <<stream_vars, tool_vars, cur_vars>>
    /\ UNCHANGED aux_vars

\* cancellation.py CancelSignal.set (10-12), called by the holder of the
\* signal that was passed to create_conversation_graph
CancelSignalSet ==
    /\ CancelMoment
    /\ AtAwait
    /\ cancel_signal' = TRUE
    /\ UNCHANGED <<driver, task, approval_mode, events>>
    /\ UNCHANGED <<conv_vars, stream_vars, tool_vars, cur_vars>>
    /\ UNCHANGED aux_vars

\* the graph run is over: server.py _run_conversation (297-308) emits
\* turn_complete when its loop over astream ends; send_message_stream's
\* loop just ends
RunConversationEnd ==
    /\ task = "running"
    /\ pc \in {"end", "failed"}
    /\ AtAwait
    /\ task' = "done"
    /\ events' = IF driver = "server" THEN Append(events, TurnCompleteEvent)
                 ELSE events
    /\ UNCHANGED <<driver, cancel_signal, approval_mode>>
    /\ UNCHANGED <<conv_vars, stream_vars, tool_vars, cur_vars>>
    /\ UNCHANGED aux_vars

(***************************************************************************)
(* Conversation graph nodes (chat_nodes.py, conversation_graph.py).        *)
(***************************************************************************)
\* an orchestrator that swallows the exception of a node
EventsAfterRaise_Silent(evs) == evs

\* conversation_graph.py graph_runner (277-279): `except Exception` around the
\* run of the graph, emitter.emit_error(e)
EventsAfterRaise(evs) == Append(evs, ErrorEvent)

\* process_user_input_node (169-206)
ProcessUserInput ==
    /\ GraphRunning
    /\ pc = "process_input"
    /\ IF current_user_input = "none"
       THEN \* ValueError, caught by graph_runner, which emits the error
            /\ pc' = "failed"
            /\ events' = EventsAfterRaise(events)
            /\ history' = history
       ELSE /\ pc' = "compress_history"
            /\ history' = Append(history, Turn("user", <<"text">>))
            /\ events' = events
    /\ UNCHANGED <<driver, task, cancel_signal, approval_mode>>
    /\ UNCHANGED <<current_user_input, pending_tool_calls, max_turns, model_calls>>
    /\ UNCHANGED <<stream_vars, tool_vars, cur_vars>>
    /\ UNCHANGED aux_vars

\* compress_history_node (86-157): outcome "skip" is the token count below
\* the limit, a count or summary call that raised, or an empty summary.
\* The coroutine emitter.emit("chat_compressed", ...) is created and never
\* awaited (144-150): no event is emitted.
CompressHistory(outcome) ==
    /\ GraphRunning
    /\ pc = "compress_history"
    /\ pc' = "call_model"
    /\ history' = IF outcome = "summary" /\ history # <<>>
                  THEN SummaryHistory("text")
                  ELSE history
    /\ UNCHANGED <<driver, task, cancel_signal, approval_mode, events>>
    /\ UNCHANGED <<current_user_input, pending_tool_calls, max_turns, model_calls>>
    /\ UNCHANGED <<stream_vars, tool_vars, cur_vars>>
    /\ UNCHANGED aux_vars

\* call_model_node (224-228): curated_history = extract_curated_history(history).
\* A run in which the scheduler is invoked again is followed to the end of
\* that invocation only.
CallModelBegin ==
    /\ GraphRunning
    /\ pc = "call_model"
    /\ tg_caller # "direct"
    /\ cur_pc = "idle"
    /\ StartCuration(history, 0)
    /\ UNCHANGED curated_first
    /\ UNCHANGED main_vars
    /\ UNCHANGED aux_vars

\* call_model_node (242-296): the request is sent under retry_with_backoff;
\* it opens the stream or raises once the retries are used up
CallModelOpenStream(ok) ==
    /\ GraphRunning
    /\ pc = "call_model"
    /\ cur_pc = "done"
    /\ model_calls < MaxModelCalls
    /\ cur_pc' = "idle"
    /\ model_calls' = model_calls + 1
    /\ IF ok
       THEN /\ pc' = "streaming"
            /\ events' = events
       ELSE /\ pc' = "failed"
            /\ events' = EventsAfterRaise(events)
    /\ model_parts' = <<>>
    /\ stream_tool_calls' = <<>>
    /\ stream_chunks' = 0
    /\ UNCHANGED <<driver, task, cancel_signal, approval_mode>>
    /\ UNCHANGED <<history, current_user_input, pending_tool_calls, max_turns>>
    /\ UNCHANGED <<chunks, tool_vars>>
    /\ UNCHANGED <<comprehensive_history, scan_i, curated_history, cur_pass,
                   curated_first>>
    /\ UNCHANGED aux_vars

\* parts a chunk of the stream may carry
ChunkParts ==
    {[kind |-> "thought", name |-> "none"],
     [kind |-> "text", name |-> "none"],
     [kind |-> "empty_text", name |-> "none"]}
        \cup {[kind |-> "function_call", name |-> n] : n \in ToolNames}

\* a chunk handler that appends what it collected to the history at once
StreamChunk_AppendsAtOnce(part) ==
    /\ GraphRunning
    /\ pc = "streaming"
    /\ AtAwait
    /\ chunks < MaxChunks
    /\ chunks' = chunks + 1
    /\ stream_chunks' = stream_chunks + 1
    /\ IF part.kind = "thought"
       THEN /\ events' = Append(events, ThoughtEvent)
            /\ UNCHANGED <<model_parts, stream_tool_calls, history>>
       ELSE IF part.kind = "function_call"
       THEN /\ stream_tool_calls' = Append(stream_tool_calls,
                    ToolCallRequestInfo(Len(stream_tool_calls), part.name))
            /\ UNCHANGED <<model_parts, events, history>>
       ELSE IF part.kind = "text"
       THEN /\ model_parts' = Append(model_parts, part.kind)
            /\ events' = Append(events, ContentEvent)
            /\ history' = Append(history, Turn("model", <<part.kind>>))
            /\ UNCHANGED stream_tool_calls
       ELSE /\ model_parts' = Append(model_parts, part.kind)
            /\ UNCHANGED <<stream_tool_calls, events, history>>
    /\ UNCHANGED <<driver, task, cancel_signal, approval_mode>>
    /\ UNCHANGED <<pc, current_user_input, pending_tool_calls, max_turns,
                   model_calls>>
    /\ UNCHANGED <<tool_vars, cur_vars>>
    /\ UNCHANGED aux_vars

\* call_model_node (298-335): one chunk of the stream, one part in it
StreamChunk(part) ==
    /\ GraphRunning
    /\ pc = "streaming"
    /\ AtAwait
    /\ chunks < MaxChunks
    /\ chunks' = chunks + 1
    /\ stream_chunks' = stream_chunks + 1
    /\ IF part.kind = "thought"
       THEN /\ events' = Append(events, ThoughtEvent)
            /\ UNCHANGED <<model_parts, stream_tool_calls>>
       ELSE IF part.kind = "function_call"
       THEN /\ stream_tool_calls' = Append(stream_tool_calls,
                    ToolCallRequestInfo(Len(stream_tool_calls), part.name))
            /\ UNCHANGED <<model_parts, events>>
       ELSE IF part.kind = "text"
       THEN /\ model_parts' = Append(model_parts, part.kind)
            /\ events' = Append(events, ContentEvent)
            /\ UNCHANGED stream_tool_calls
       ELSE /\ model_parts' = Append(model_parts, part.kind)
            /\ UNCHANGED <<stream_tool_calls, events>>
    /\ UNCHANGED <<driver, task, cancel_signal, approval_mode>>
    /\ UNCHANGED conv_vars
    /\ UNCHANGED <<tool_vars, cur_vars>>
    /\ UNCHANGED aux_vars

\* call_model_node (395-403): the stream raises; the exception leaves the
\* node and graph_runner emits the error
StreamRaise ==
    /\ GraphRunning
    /\ pc = "streaming"
    /\ AtAwait
    /\ pc' = "failed"
    /\ events' = EventsAfterRaise(events)
    /\ UNCHANGED <<driver, task, cancel_signal, approval_mode>>
    /\ UNCHANGED <<history, current_user_input, pending_tool_calls, max_turns,
                   model_calls>>
    /\ UNCHANGED <<stream_vars, tool_vars, cur_vars>>
    /\ UNCHANGED aux_vars

\* the model turn call_model_node builds (353-362)
ModelTurnParts(parts, calls) ==
    parts \o [k \in 1..Len(calls) |-> "function_call"]

\* the history call_model_node leaves (364-380), given the curated history
HistoryAfterStream(h, curated, parts, calls) ==
    IF ModelTurnParts(parts, calls) # <<>>
    THEN Append(h, Turn("model", ModelTurnParts(parts, calls)))
    ELSE IF curated # <<>> /\ curated[Len(curated)].role \in {"function", "tool"}
    THEN h
    ELSE Append(h, Turn("model", <<>>))

\* an edge that sends every model turn to the tool phase
CheckToolCallsEdge_Always(pending) == "execute_tools"

\* check_tool_calls_edge (406-419)
CheckToolCallsEdge(pending) ==
    IF pending # <<>> THEN "execute_tools" ELSE "check_continuation"

\* call_model_node (337-393) and check_tool_calls_edge (406-419)
StreamEnd ==
    /\ GraphRunning
    /\ pc = "streaming"
    /\ AtAwait
    /\ history' = HistoryAfterStream(history, curated_history, model_parts,
                                     stream_tool_calls)
    /\ pending_tool_calls' = stream_tool_calls
    /\ current_user_input' = "none"
    /\ pc' = CheckToolCallsEdge(stream_tool_calls)
    /\ UNCHANGED <<driver, task, cancel_signal, approval_mode, events>>
    /\ UNCHANGED <<max_turns, model_calls>>
    /\ UNCHANGED <<stream_vars, tool_vars, cur_vars>>
    /\ UNCHANGED aux_vars

\* check_continuation_node (422-474) and check_continuation_edge (477-481);
\* answer is the next_speaker the model names, or "error"
CheckContinuation(answer) ==
    /\ GraphRunning
    /\ pc = "check_continuation"
    /\ LET last == history[Len(history)]
           continue ==
               IF history = <<>> THEN FALSE
               ELSE IF last.role # "model"
               THEN /\ last.role = "user"
                    /\ last.parts # <<>>
                    /\ \A k \in 1..Len(last.parts) :
                           last.parts[k] = "function_response"
               ELSE answer = "model"
       IN /\ pc' = IF continue THEN "call_model" ELSE "end"
          /\ current_user_input' =
                 IF continue /\ history # <<>> /\ last.role = "model"
                 THEN "continue" ELSE current_user_input
    /\ UNCHANGED <<driver, task, cancel_signal, approval_mode, events>>
    /\ UNCHANGED <<history, pending_tool_calls, max_turns, model_calls>>
    /\ UNCHANGED <<stream_vars, tool_vars, cur_vars>>
    /\ UNCHANGED aux_vars

(***************************************************************************)
(* Tool phase: conversation_graph.py execute_tools_node and the tool       *)
(* execution graph.                                                        *)
(***************************************************************************)
\* execute_tools_node (53-66): with no pending call the node returns {} and
\* the edge leads to call_model; otherwise the subgraph is invoked on the
\* pending calls.  create_tool_execution_graph (287) builds its context
\* around a CancelSignal of its own.
ExecuteToolsBegin ==
    /\ GraphRunning
    /\ pc = "execute_tools"
    /\ tg_pc = "idle"
    /\ IF pending_tool_calls = <<>>
       THEN /\ pc' = "call_model"
            /\ UNCHANGED tool_vars
       ELSE /\ pc' = pc
            /\ tg_pc' = "schedule_tools"
            /\ tg_caller' = "conv"
            /\ incoming_requests' = pending_tool_calls
            /\ tool_calls' = <<>>
            /\ completed' = <<>>
    /\ UNCHANGED <<session_vars, stream_vars, cur_vars>>
    /\ UNCHANGED <<history, current_user_input, pending_tool_calls,
                   max_turns, model_calls>>
    /\ UNCHANGED aux_vars

\* the tool graph runs inside the node that invoked it
ToolGraphRunning == tg_caller = "direct" \/ GraphRunning

\* schedule_tools_node (154-212), then the conditional edge and
\* interrupt_before=["wait_for_approval"] (303-318)
ScheduleTools ==
    /\ tg_pc = "schedule_tools"
    /\ ToolGraphRunning
    /\ AtAwait
    /\ LET calls == tool_calls \o NewToolCalls(incoming_requests, approval_mode)
       IN /\ tool_calls' = calls
          /\ tg_pc' = IF ShouldWaitForApproval(calls) THEN "interrupted"
                      ELSE "execute_tools"
          /\ completed' = [k \in 1..Len(calls) |-> "none"]
    /\ UNCHANGED <<tg_caller, incoming_requests>>
    /\ UNCHANGED <<session_vars, conv_vars, stream_vars, cur_vars>>
    /\ UNCHANGED aux_vars

\* execute_single_tool (100-151) for the k-th call, one of the gathered
\* tasks: tool.execute returns (success) or raises (error).  The gathered
\* tasks finish in any order.
ExecuteSingleTool(k, result) ==
    /\ tg_pc = "execute_tools"
    /\ ToolGraphRunning
    /\ AtAwait
    /\ k \in 1..Len(tool_calls)
    /\ tool_calls[k].status = "scheduled"
    /\ completed[k] = "none"
    /\ completed' = [completed EXCEPT ![k] = result]
    /\ UNCHANGED <<tg_pc, tg_caller, incoming_requests, tool_calls>>
    /\ UNCHANGED <<session_vars, conv_vars, stream_vars, cur_vars>>
    /\ UNCHANGED aux_vars

\* execute_tools_node (246-266): nothing scheduled, or gather has every
\* result; the graph reaches END
ExecuteToolsReturn ==
    /\ tg_pc = "execute_tools"
    /\ ToolGraphRunning
    /\ AtAwait
    /\ \A k \in 1..Len(tool_calls) :
           tool_calls[k].status = "scheduled" => completed[k] # "none"
    /\ tool_calls' = UpdatedToolCalls(tool_calls, completed)
    /\ tg_pc' = "returned"
    /\ UNCHANGED <<tg_caller, incoming_requests, completed>>
    /\ UNCHANGED <<session_vars, conv_vars, stream_vars, cur_vars>>
    /\ UNCHANGED aux_vars

\* a tool phase that hands its pending calls on
PendingAfterToolPhase_Kept(pending) == pending

\* execute_tools_node (80-83): "pending_tool_calls": []
PendingAfterToolPhase(pending) == <<>>

\* conversation_graph.py execute_tools_node (68-83) once ainvoke has
\* returned, at END or at the interrupt; then the edge to call_model
ExecuteToolsFinish ==
    /\ GraphRunning
    /\ pc = "execute_tools"
    /\ tg_caller = "conv"
    /\ tg_pc \in {"returned", "interrupted"}
    /\ AtAwait
    /\ history' = history \o FunctionTurns(tool_calls)
    /\ pending_tool_calls' = PendingAfterToolPhase(pending_tool_calls)
    /\ pc' = "call_model"
    /\ tg_pc' = "idle"
    /\ UNCHANGED <<tg_caller, incoming_requests, tool_calls, completed>>
    /\ UNCHANGED <<session_vars, stream_vars, cur_vars>>
    /\ UNCHANGED <<current_user_input, max_turns, model_calls>>
    /\ UNCHANGED aux_vars

\* the tool graph invoked again on the state its last run returned, all of
\* whose calls are terminal (as app.py 295-300 invokes it on the stored state)
ReinvokeScheduler ==
    /\ tg_pc = "idle"
    /\ tg_caller = "conv"
    /\ tool_calls # <<>>
    /\ AllTerminal(tool_calls)
    /\ AtAwait
    /\ tg_pc' = "schedule_tools"
    /\ tg_caller' = "direct"
    /\ UNCHANGED <<incoming_requests, tool_calls, completed>>
    /\ UNCHANGED <<session_vars, conv_vars, stream_vars, cur_vars>>
    /\ UNCHANGED aux_vars

\* the re-invoked run ends
ReinvokeReturn ==
    /\ tg_caller = "direct"
    /\ tg_pc \in {"returned", "interrupted"}
    /\ tg_pc' = "idle"
    /\ UNCHANGED <<tg_caller, incoming_requests, tool_calls, completed>>
    /\ UNCHANGED <<session_vars, conv_vars, stream_vars, cur_vars>>
    /\ UNCHANGED aux_vars

(***************************************************************************)
(* Compression (core/app.py _try_compress_chat, conversation_graph.py      *)
(* compress_history_node), each applied once to a history.                 *)
(***************************************************************************)
\* tokens count_tokens reports for a part: a "long_text" part is a text
\* part that is longer than a "text" part
TokensOfPart(part) == IF part = "long_text" THEN 3 ELSE 1

RECURSIVE TokensOfParts(_)
TokensOfParts(parts) ==
    IF parts = <<>> THEN 0
    ELSE TokensOfPart(Head(parts)) + TokensOfParts(Tail(parts))

\* totalTokens of count_tokens(contents = H)
RECURSIVE TokenCount(_)
TokenCount(H) ==
    IF H = <<>> THEN 0
    ELSE TokensOfParts(Head(H).parts) + TokenCount(Tail(H))

\* extract_curated_history as a function of the history, the scan from
\* index i with curated_history = out
RECURSIVE CurateFrom(_, _, _)
CurateFrom(H, i, out) ==
    IF i > Len(H) THEN out
    ELSE IF H[i].role = "user" THEN CurateFrom(H, i + 1, Append(out, H[i]))
    ELSE LET j == RunEnd(H, i)
             model_output == SubSeq(H, i, j - 1)
             is_valid == \A k \in 1..Len(model_output) :
                             IsValidContent(model_output[k])
         IN CurateFrom(H, j, AfterModelRun(out, model_output, is_valid))

ExtractCuratedHistory(H) == CurateFrom(H, 1, <<>>)

\* `original_token_count < 0.95 * limit`
BelowThreshold(original_token_count, limit) ==
    100 * original_token_count < 95 * limit

\* a summary test that lets every summary through
NoSummary_Never(summary_text) == FALSE

\* `if not summary_text`
NoSummary(summary_text) == summary_text = "empty_text"

\* token_limit(model) for the models tried; 0 is "no limit defined"
TokenLimits == {0, 2, 1000}

\* what a call of the content generator can do
CountOutcomes == {"ok", "none", "raise"}
SummaryOutcomes == {"raise", "empty_text", "text", "long_text"}

\* _try_compress_chat (431-524)
TryCompressChat(force, limit, count, summary, recount) ==
    /\ cmp_pc = "start"
    /\ cmp_fn = "try_compress_chat"
    /\ cmp_pc' = "returned"
    /\ LET curated == ExtractCuratedHistory(cmp_history)
           original == TokenCount(curated)
           new_history == StartChatHistory(SummaryHistory(summary))
       IN IF curated = <<>>
          THEN /\ cmp_result' = "None"
               /\ UNCHANGED <<cmp_history, cmp_original, cmp_new, cmp_summary>>
          ELSE IF count = "raise"
          THEN /\ cmp_result' = "raised"
               /\ UNCHANGED <<cmp_history, cmp_original, cmp_new, cmp_summary>>
          ELSE IF count = "none"
          THEN /\ cmp_result' = "None"
               /\ UNCHANGED <<cmp_history, cmp_original, cmp_new, cmp_summary>>
          ELSE IF limit = 0
          THEN /\ cmp_result' = "None"
               /\ cmp_original' = original
               /\ UNCHANGED <<cmp_history, cmp_new, cmp_summary>>
          ELSE IF ~force /\ BelowThreshold(original, limit)
          THEN /\ cmp_result' = "None"
               /\ cmp_original' = original
               /\ UNCHANGED <<cmp_history, cmp_new, cmp_summary>>
          ELSE IF summary = "raise"
          THEN /\ cmp_result' = "raised"
               /\ cmp_original' = original
               /\ cmp_summary' = summary
               /\ UNCHANGED <<cmp_history, cmp_new>>
          ELSE IF NoSummary(summary)
          THEN /\ cmp_result' = "None"
               /\ cmp_original' = original
               /\ cmp_summary' = summary
               /\ UNCHANGED <<cmp_history, cmp_new>>
          ELSE /\ cmp_history' = new_history
               /\ cmp_original' = original
               /\ cmp_summary' = summary
               /\ cmp_result' = IF recount = "ok" THEN "info"
                                ELSE IF recount = "none" THEN "None"
                                ELSE "raised"
               /\ cmp_new' = IF recount = "ok" THEN TokenCount(new_history)
                             ELSE cmp_new
    /\ UNCHANGED <<cmp_fn, cmp_before, cmp_events>>
    /\ UNCHANGED not_cmp_vars

\* send_message_stream (216-226): the caller of _try_compress_chat yields
\* CHAT_COMPRESSED for a result, logs an exception
SendMessageStreamCompressed ==
    /\ cmp_pc = "returned"
    /\ cmp_pc' = "done"
    /\ cmp_events' = IF cmp_result = "info"
                     THEN Append(cmp_events, ChatCompressedEvent)
                     ELSE cmp_events
    /\ UNCHANGED <<cmp_fn, cmp_history, cmp_before, cmp_result, cmp_original,
                   cmp_new, cmp_summary>>
    /\ UNCHANGED not_cmp_vars

\* compress_history_node (86-157); it makes no recount, and the coroutine
\* emitter.emit("chat_compressed", ...) is never awaited
CompressHistoryNode(limit, count, summary) ==
    /\ cmp_pc = "start"
    /\ cmp_fn = "compress_history_node"
    /\ cmp_pc' = "done"
    /\ cmp_result' = "state"
    /\ LET original == IF count = "ok" THEN TokenCount(cmp_history) ELSE 0
       IN IF cmp_history = <<>>
          THEN UNCHANGED <<cmp_history, cmp_original, cmp_summary>>
          ELSE IF count = "raise"
          THEN UNCHANGED <<cmp_history, cmp_original, cmp_summary>>
          ELSE IF limit = 0
          THEN /\ cmp_original' = original
               /\ UNCHANGED <<cmp_history, cmp_summary>>
          ELSE IF BelowThreshold(original, limit)
          THEN /\ cmp_original' = original
               /\ UNCHANGED <<cmp_history, cmp_summary>>
          ELSE /\ cmp_original' = original
               /\ cmp_summary' = summary
               /\ cmp_history' =
                      IF summary = "raise" THEN cmp_history
                      ELSE IF NoSummary(summary) THEN cmp_history
                      ELSE SummaryHistory(summary)
    /\ UNCHANGED <<cmp_fn, cmp_before, cmp_new, cmp_events>>
    /\ UNCHANGED not_cmp_vars

\* no compression is being checked
CompressIdle ==
    /\ cmp_pc = "idle"
    /\ cmp_fn = "none"
    /\ cmp_history = <<>>
    /\ cmp_before = <<>>
    /\ cmp_result = "none"
    /\ cmp_original = -1
    /\ cmp_new = -1
    /\ cmp_summary = "not_called"
    /\ cmp_events = <<>>

(***************************************************************************)
(* The event bus (core/events.py EventEmitter) with two producers, the     *)
(* conversation task and the message handler of the session.  An event is  *)
(* named by its number in emission order.                                  *)
(***************************************************************************)
Producers == {"task", "handler"}

\* a queue that replays what the bus has delivered so far
NewSubscriberQueue_Replays(delivered) == delivered

\* subscribe (118): queue = asyncio.Queue()
NewSubscriberQueue(delivered) == <<>>

\* asyncio.Queue.put waits while the queue is full; maxsize 0 is unbounded
QueueFull(queue) == QueueMaxsize > 0 /\ Len(queue) >= QueueMaxsize

\* emit (51-56): put the event on the internal queue and on the queue of
\* every subscriber
PutOnQueues(event) ==
    /\ ~QueueFull(bus_queue)
    /\ bus_queue' = Append(bus_queue, event)
    /\ bus_subs' = [k \in 1..Len(bus_subs) |->
                       [bus_subs[k] EXCEPT !.got = Append(@, event)]]
    /\ bus_done' = Append(bus_done, event)

\* emit (32-49): a producer calls emit; with a websocket the coroutine
\* awaits websocket.send_json, without one it goes on to the queues
EmitCall(p) ==
    /\ bus_pc = "open"
    /\ bus_sending[p] = 0
    /\ Len(bus_emitted) < MaxEmits
    /\ LET event == Len(bus_emitted) + 1
       IN /\ bus_emitted' = Append(bus_emitted, event)
          /\ IF bus_websocket
             THEN /\ bus_ws' = Append(bus_ws, event)
                  /\ bus_sending' = [bus_sending EXCEPT ![p] = event]
                  /\ UNCHANGED <<bus_queue, bus_subs, bus_done>>
             ELSE /\ PutOnQueues(event)
                  /\ UNCHANGED <<bus_ws, bus_sending>>
    /\ UNCHANGED <<bus_pc, bus_websocket>>
    /\ UNCHANGED not_bus_vars

\* emit (48-56): send_json has returned to the coroutine of producer p
EmitDeliver(p) ==
    /\ bus_pc = "open"
    /\ bus_sending[p] # 0
    /\ PutOnQueues(bus_sending[p])
    /\ bus_sending' = [bus_sending EXCEPT ![p] = 0]
    /\ UNCHANGED <<bus_pc, bus_websocket, bus_emitted, bus_ws>>
    /\ UNCHANGED not_bus_vars

\* subscribe (110-120)
Subscribe ==
    /\ bus_pc = "open"
    /\ Len(bus_subs) < MaxSubscribers
    /\ bus_subs' = Append(bus_subs,
                       [since |-> bus_done,
                        got |-> NewSubscriberQueue(bus_queue)])
    /\ UNCHANGED <<bus_pc, bus_websocket, bus_emitted, bus_sending, bus_ws,
                   bus_queue, bus_done>>
    /\ UNCHANGED not_bus_vars

\* no bus is being checked
BusIdle ==
    /\ bus_pc = "idle"
    /\ bus_websocket = FALSE
    /\ bus_emitted = <<>>
    /\ bus_sending = [p \in Producers |-> 0]
    /\ bus_ws = <<>>
    /\ bus_queue = <<>>
    /\ bus_subs = <<>>
    /\ bus_done = <<>>

(***************************************************************************)
(* Sessions of one process (server.py SessionManager) and the state of     *)
(* tools/mcp/mcp_client.py that their tool discoveries write.              *)
(***************************************************************************)
SessionIds == 1..MaxSessions

\* names of the MCP servers in the sessions' configurations
McpServers == {"srv"}

\* MCPStatusManager.get_status (55-58)
GetStatus(server_name) ==
    IF server_statuses[server_name] = "absent" THEN "disconnected"
    ELSE server_statuses[server_name]

\* DiscoveredMCPTool.allowlist (30): a set of the class, written nowhere
allowlist == {}

\* DiscoveredMCPTool.should_confirm_execute (56-75) of the tool of session t
McpShouldConfirmExecute(t) ==
    IF ses_tool[t] = "trusted" THEN FALSE
    ELSE IF \E n \in McpServers : n \in allowlist THEN FALSE
    ELSE TRUE

\* what the code of session t reads from status_manager, and whether its
\* MCP tool asks for confirmation
Observed(t) ==
    [statuses |-> [n \in McpServers |-> GetStatus(n)],
     discovery |-> discovery_state,
     confirm |-> McpShouldConfirmExecute(t)]

\* SessionManager.create_session (28-39) down to discover_mcp_tools (160-166)
\* and connect_and_discover (81), up to its first await
CreateSession(s) ==
    /\ ses_pc = "open"
    /\ ses_stage[s] = "none"
    /\ ses_stage' = [ses_stage EXCEPT ![s] = "connecting"]
    /\ discovery_state' = "in_progress"
    /\ server_statuses' = [n \in McpServers |-> "connecting"]
    /\ ses_actor' = s
    /\ UNCHANGED <<sessions, ses_tool>>
    /\ UNCHANGED ses_pc
    /\ UNCHANGED not_ses_vars

\* connect_and_discover (83-113) and _discover_with_session (116-157): the
\* connection is made and the server's tool registered with the trust of
\* the session's configuration, or the connection fails
ConnectAndDiscover(s, ok, trust) ==
    /\ ses_pc = "open"
    /\ ses_stage[s] = "connecting"
    /\ ses_stage' = [ses_stage EXCEPT ![s] = "connected"]
    /\ ses_tool' = [ses_tool EXCEPT ![s] =
                        IF ~ok THEN "none"
                        ELSE IF trust THEN "trusted" ELSE "untrusted"]
    /\ server_statuses' =
           [n \in McpServers |-> IF ok THEN "connected" ELSE "disconnected"]
    /\ ses_actor' = s
    /\ UNCHANGED <<sessions, discovery_state>>
    /\ UNCHANGED ses_pc
    /\ UNCHANGED not_ses_vars

\* discover_mcp_tools (168-169) once the gather is over, and the rest of
\* create_session (38-39)
CreateSessionReturn(s) ==
    /\ ses_pc = "open"
    /\ ses_stage[s] = "connected"
    /\ ses_stage' = [ses_stage EXCEPT ![s] = "ready"]
    /\ discovery_state' = "completed"
    /\ sessions' = sessions \cup {s}
    /\ ses_actor' = s
    /\ UNCHANGED <<server_statuses, ses_tool>>
    /\ UNCHANGED ses_pc
    /\ UNCHANGED not_ses_vars

\* SessionManager.end_session (45-51)
EndSession(s) ==
    /\ ses_pc = "open"
    /\ s \in sessions
    /\ sessions' = sessions \ {s}
    /\ ses_stage' = [ses_stage EXCEPT ![s] = "ended"]
    /\ ses_actor' = s
    /\ UNCHANGED <<server_statuses, discovery_state, ses_tool>>
    /\ UNCHANGED ses_pc
    /\ UNCHANGED not_ses_vars

\* no process is being checked
SessionsIdle ==
    /\ ses_pc = "idle"
    /\ sessions = {}
    /\ ses_stage = [s \in SessionIds |-> "none"]
    /\ ses_tool = [s \in SessionIds |-> "none"]
    /\ server_statuses = [n \in McpServers |-> "absent"]
    /\ discovery_state = "not_started"
    /\ ses_actor = 0


(***************************************************************************)
(* Tool confirmation responses: app.py handle_tool_confirmation and        *)
(* websocket/server.py _handle_tool_confirmation.                          *)
(***************************************************************************)
ToolConfirmationOutcome == {"approve", "cancel", "modify_with_editor"}

\* core/types.py ToolConfirmationOutcome (30-37): the outcomes with which a
\* front-end approves a tool or an MCP server for good
AlwaysApproveOutcomes == {"proceed_always_tool", "proceed_always_server"}

\* outcomes a tool_confirmation_response may carry
OutcomesSent == ToolConfirmationOutcome \cup AlwaysApproveOutcomes

\* call ids a tool_confirmation_response may name
ConfirmationCallIds == {0, 1}

\* self._current_tool_execution_state = None
NoToolExecutionState == [stored |-> FALSE, tool_calls |-> <<>>]

NoConfirmation == [call_id |-> -1, outcome |-> "none", result |-> "none"]

\* GeminiError(..., "invalid_state") as an error event
InvalidStateErrorEvent == Event("error", "invalid_state", -1)

\* a call of the stored state is the one the response names (271-275)
IsWaitingCall(call, call_id) ==
    call.request.call_id = call_id /\ call.status = "awaiting_approval"

\* an outcome handling that schedules the call whatever the outcome
StatusAfterOutcome_AlwaysScheduled(outcome) == "scheduled"

\* handle_tool_confirmation (277-283): APPROVE schedules the call, CANCEL and
\* MODIFY_WITH_EDITOR cancel it
StatusAfterOutcome(outcome) ==
    IF outcome = "approve" THEN "scheduled" ELSE "cancelled"

\* handle_tool_confirmation (268-285): updated_calls
ConfirmedCalls(calls, call_id, outcome) ==
    [k \in 1..Len(calls) |->
        IF IsWaitingCall(calls[k], call_id)
        THEN ToolCall(calls[k].request, StatusAfterOutcome(outcome))
        ELSE calls[k]]

\* app.py handle_tool_confirmation (255-321) for one response, sent when
\* send_message_stream has ended.  send_message_stream stores a
\* ToolExecutionState only when the graph yields a TOOL_CALL_CONFIRMATION
\* event (241-245); with a stored state the handler is followed up to the
\* invocation of the tool graph.
HandleToolConfirmation(call_id, outcome) ==
    /\ driver = "client"
    /\ task = "done"
    /\ confirmation = NoConfirmation
    /\ IF ~current_tool_execution_state.stored
       THEN /\ confirmation' = [call_id |-> call_id, outcome |-> outcome,
                                result |-> "raised_invalid_state"]
            /\ UNCHANGED <<current_tool_execution_state, tool_vars>>
       ELSE IF \A k \in 1..Len(current_tool_execution_state.tool_calls) :
                   ~IsWaitingCall(current_tool_execution_state.tool_calls[k],
                                  call_id)
       THEN /\ confirmation' = [call_id |-> call_id, outcome |-> outcome,
                                result |-> "raised_not_found"]
            /\ UNCHANGED <<current_tool_execution_state, tool_vars>>
       ELSE /\ confirmation' = [call_id |-> call_id, outcome |-> outcome,
                                result |-> "resumed"]
            /\ current_tool_execution_state' = NoToolExecutionState
            /\ tool_calls' =
                   ConfirmedCalls(current_tool_execution_state.tool_calls,
                                  call_id, outcome)
            /\ tg_pc' = "schedule_tools"
            /\ tg_caller' = "direct"
            /\ UNCHANGED <<incoming_requests, completed>>
    /\ UNCHANGED <<session_vars, conv_vars, stream_vars, cur_vars>>
    /\ UNCHANGED not_conf_vars

\* server.py _handle_tool_confirmation (238-255): the message is logged
HandleToolConfirmationMessage(call_id, outcome) ==
    /\ driver = "server"
    /\ task = "done"
    /\ confirmation = NoConfirmation
    /\ confirmation' = [call_id |-> call_id, outcome |-> outcome,
                        result |-> "logged"]
    /\ UNCHANGED current_tool_execution_state
    /\ UNCHANGED <<cur_vars, main_vars>>
    /\ UNCHANGED not_conf_vars

\* no confirmation response has been handled, no tool state is stored
ConfirmIdle ==
    /\ current_tool_execution_state = NoToolExecutionState
    /\ confirmation = NoConfirmation

(***************************************************************************)
(* The tool execution graph on requests that carry their args              *)
(* (tool_execution_graph.py), on its own.                                  *)
(***************************************************************************)
ArgsKinds == {"valid", "invalid"}

\* a ToolCallRequestInfo with its args; tool.validate_tool_params(args)
\* returns an error message exactly for the "invalid" ones
RequestWithArgs(call_id, name, args) ==
    [call_id |-> call_id, name |-> name, args |-> args]

\* tools of the registry the requests may name, and a name it does not hold
ScheduleToolNames == ToolNames \cup {"write_file"}

ApprovalModes == {"default", "auto_edit", "yolo"}

\* tool.should_confirm_execute(req.args, None) returns confirmation details:
\* the tools return False when validate_tool_params reports an error
\* (shell_tool.py 74-75, write_file.py 92-94), write_file returns False in
\* auto_edit mode (write_file.py 89-90), read_file inherits BaseTool's False
ShouldConfirmExecuteArgs(req, mode) ==
    IF req.args # "valid" THEN FALSE
    ELSE IF req.name = "write_file" THEN mode # "auto_edit"
    ELSE ShouldConfirmExecute(req.name)

\* a loop body that lets no call wait for approval
ScheduleRequest_NoGate(req, mode) ==
    IF ~Registered(req.name) THEN ToolCall(req, "error")
    ELSE ToolCall(req, "scheduled")

\* schedule_tools_node, the body of its loop for one request (162-210)
ScheduleRequest(req, mode) ==
    IF ~Registered(req.name) THEN ToolCall(req, "error")
    ELSE IF mode = "yolo" THEN ToolCall(req, "scheduled")
    ELSE IF ShouldConfirmExecuteArgs(req, mode)
    THEN ToolCall(req, "awaiting_approval")
    ELSE ToolCall(req, "scheduled")

\* schedule_tools_node (154-212), the conditional edge (269-278) and
\* interrupt_before=["wait_for_approval"] (315-318)
ScheduleToolsNode ==
    /\ sch_pc = "schedule_tools"
    /\ LET calls == [k \in 1..Len(sch_requests) |->
                        ScheduleRequest(sch_requests[k], sch_mode)]
       IN /\ sch_calls' = calls
          /\ sch_pc' = IF ShouldWaitForApproval(calls) THEN "interrupted"
                       ELSE "execute_tools"
    /\ UNCHANGED <<sch_mode, sch_requests, sch_executed, sch_events>>
    /\ UNCHANGED not_sch_vars

\* execute_single_tool (100-151) for the k-th call: tool.execute is called
\* on the args and returns a ToolResult (the tools return one that reports
\* the error for args their validation rejects) or raises
ExecuteScheduledTool(k, raised) ==
    /\ sch_pc = "execute_tools"
    /\ k \in 1..Len(sch_calls)
    /\ sch_calls[k].status = "scheduled"
    /\ sch_calls' = [sch_calls EXCEPT ![k].status =
                        IF raised THEN "error" ELSE "success"]
    /\ sch_executed' = sch_executed \cup {sch_calls[k].request.call_id}
    /\ UNCHANGED <<sch_pc, sch_mode, sch_requests, sch_events>>
    /\ UNCHANGED not_sch_vars

\* execute_tools_node (239-266) returns and the graph reaches END
ExecuteToolsNodeReturn ==
    /\ sch_pc = "execute_tools"
    /\ \A k \in 1..Len(sch_calls) : sch_calls[k].status # "scheduled"
    /\ sch_pc' = "returned"
    /\ UNCHANGED <<sch_mode, sch_requests, sch_calls, sch_executed, sch_events>>
    /\ UNCHANGED not_sch_vars

\* no tool graph is being checked on its own
ScheduleIdle ==
    /\ sch_pc = "idle"
    /\ sch_mode = "default"
    /\ sch_requests = <<>>
    /\ sch_calls = <<>>
    /\ sch_executed = {}
    /\ sch_events = <<>>

(***************************************************************************)
(* Retry policy: gemini_cli_core/utils/retry.py (the decorator's wrapper)  *)
(* and utils/retry.py (the function), one call under each.  Delays are in  *)
(* milliseconds.                                                           *)
(***************************************************************************)
\* defaults of gemini_cli_core/utils/retry.py retry_with_backoff (37-39)
max_attempts == 5
initial_delay_ms == 5000
max_delay_ms == 30000

\* defaults of utils/retry.py retry_with_backoff (18-21): 1.0 s, 60.0 s
max_retries == 3
initial_delay == 1000
max_delay == 60000
exponential_base == 2

\* failures of the wrapped work: the HTTP status its error carries
WorkErrors == {"429", "500", "400"}

\* the Retry-After header of the error, in seconds; -1: the error has none
RetryAfterHeaders == {-1, 0, 2}

\* what the fallback handler does when awaited
FallbackOutcomes == {"model", "None", "raised"}

\* random.random() * 2 - 1 (135), in steps of one
Jitters == {-1, 0, 1}

\* default_should_retry (23-33): never on 400 (BadRequestError), and on the
\* errors whose text has "429" or "50"
DefaultShouldRetry(error) == error \in {"429", "500"}

Min(a, b) == IF a < b THEN a ELSE b

NoAttempt ==
    [error |-> "none", retry_after |-> -1, count_429 |-> 0,
     handler_arg |-> "not_called", fallback |-> "not_called",
     delay_before |-> 0, slept |-> 0, retried |-> FALSE, reset |-> FALSE]

\* the parameters of the policy in force
MaxAttempts == IF rt_impl = "wrapper" THEN max_attempts ELSE max_retries + 1
InitialDelay == IF rt_impl = "wrapper" THEN initial_delay_ms ELSE initial_delay
MaxDelay == IF rt_impl = "wrapper" THEN max_delay_ms ELSE max_delay

\* wrapper (82): attempt = 0
AttemptAfterFallback(a) == 0

\* gemini_cli_core/utils/retry.py wrapper (58-144): one turn of its loop.
\* outcome is "ok" or the error of the work, retry_after the header of the
\* error, fallback what the handler does if it is awaited, j the jitter.
WrapperAttempt(outcome, retry_after, fallback, j) ==
    /\ rt_pc = "loop"
    /\ rt_impl = "wrapper"
    /\ attempt < max_attempts
    /\ rt_calls' = Min(rt_calls + 1, MaxWorkCalls)
    /\ LET a == attempt + 1
           c == IF outcome = "429" THEN consecutive_429_count + 1 ELSE 0
           ask == c >= 2 /\ on_persistent_429 /\ auth_type # "None"
           last == [error |-> outcome, retry_after |-> retry_after,
                    count_429 |-> c,
                    handler_arg |-> IF ask THEN auth_type ELSE "not_called",
                    fallback |-> IF ask THEN fallback ELSE "not_called",
                    delay_before |-> current_delay, slept |-> 0,
                    retried |-> FALSE, reset |-> FALSE]
       IN IF outcome = "ok"
          THEN /\ rt_pc' = "returned"
               /\ attempt' = a
               /\ rt_since_reset' = rt_since_reset + 1
               /\ rt_last' = [NoAttempt EXCEPT !.error = "ok"]
               /\ UNCHANGED <<current_delay, consecutive_429_count>>
          ELSE IF ask /\ fallback = "model"
          THEN /\ rt_pc' = "loop"
               /\ attempt' = AttemptAfterFallback(a)
               /\ consecutive_429_count' = 0
               /\ current_delay' = initial_delay_ms
               /\ rt_since_reset' = 0
               /\ rt_last' = [last EXCEPT !.retried = TRUE, !.reset = TRUE]
          ELSE IF a >= max_attempts
          THEN /\ rt_pc' = "raised"
               /\ attempt' = a
               /\ consecutive_429_count' = c
               /\ rt_since_reset' = rt_since_reset + 1
               /\ rt_last' = last
               /\ UNCHANGED current_delay
          ELSE IF ~DefaultShouldRetry(outcome)
          THEN /\ rt_pc' = "raised"
               /\ attempt' = a
               /\ consecutive_429_count' = c
               /\ rt_since_reset' = rt_since_reset + 1
               /\ rt_last' = last
               /\ UNCHANGED current_delay
          ELSE IF retry_after > 0
          THEN /\ rt_pc' = "loop"
               /\ attempt' = a
               /\ consecutive_429_count' = c
               /\ current_delay' = initial_delay_ms
               /\ rt_since_reset' = rt_since_reset + 1
               /\ rt_last' = [last EXCEPT !.retried = TRUE,
                                          !.slept = retry_after * 1000]
          ELSE /\ rt_pc' = "loop"
               /\ attempt' = a
               /\ consecutive_429_count' = c
               /\ current_delay' = Min(max_delay_ms, current_delay * 2)
               /\ rt_since_reset' = rt_since_reset + 1
               /\ rt_last' =
                      [last EXCEPT !.retried = TRUE,
                                   !.slept = current_delay
                                                + (current_delay * 3 * j) \div 10]
    /\ UNCHANGED <<rt_impl, on_persistent_429, auth_type>>
    /\ UNCHANGED not_rt_vars

\* utils/retry.py retry_with_backoff (51-98): one turn of its for loop;
\* should_retry is None.  When the loop is used up by a `continue`, the
\* function raises last_error (97-98).
RetryWithBackoffAttempt(outcome, retry_after, fallback) ==
    /\ rt_pc = "loop"
    /\ rt_impl = "function"
    /\ attempt < max_retries + 1
    /\ rt_calls' = Min(rt_calls + 1, MaxWorkCalls)
    /\ LET a == attempt + 1
           c == IF outcome = "429" THEN consecutive_429_count + 1 ELSE 0
           ask == c >= 2 /\ on_persistent_429
           delay == Min(current_delay * exponential_base, max_delay)
           last == [error |-> outcome, retry_after |-> retry_after,
                    count_429 |-> c,
                    handler_arg |-> IF ask THEN auth_type ELSE "not_called",
                    fallback |-> IF ask THEN fallback ELSE "not_called",
                    delay_before |-> current_delay, slept |-> 0,
                    retried |-> FALSE, reset |-> FALSE]
       IN /\ attempt' = a
          /\ IF outcome = "ok"
             THEN /\ rt_pc' = "returned"
                  /\ rt_since_reset' = rt_since_reset + 1
                  /\ rt_last' = [NoAttempt EXCEPT !.error = "ok"]
                  /\ UNCHANGED <<current_delay, consecutive_429_count>>
             ELSE IF ask /\ fallback = "raised"
             THEN /\ rt_pc' = "raised"
                  /\ consecutive_429_count' = c
                  /\ rt_since_reset' = rt_since_reset + 1
                  /\ rt_last' = last
                  /\ UNCHANGED current_delay
             ELSE IF ask /\ fallback = "model"
             THEN /\ rt_pc' = IF a = max_retries + 1 THEN "raised" ELSE "loop"
                  /\ consecutive_429_count' = 0
                  /\ rt_since_reset' = 0
                  /\ rt_last' = [last EXCEPT !.retried = a < max_retries + 1,
                                             !.reset = TRUE]
                  /\ UNCHANGED current_delay
             ELSE IF a - 1 = max_retries
             THEN /\ rt_pc' = "raised"
                  /\ consecutive_429_count' = c
                  /\ rt_since_reset' = rt_since_reset + 1
                  /\ rt_last' = last
                  /\ UNCHANGED current_delay
             ELSE /\ rt_pc' = "loop"
                  /\ consecutive_429_count' = c
                  /\ current_delay' = delay
                  /\ rt_since_reset' = rt_since_reset + 1
                  /\ rt_last' = [last EXCEPT !.retried = TRUE, !.slept = delay]
    /\ UNCHANGED <<rt_impl, on_persistent_429, auth_type>>
    /\ UNCHANGED not_rt_vars

\* no call under a retry policy is being checked
RetryIdle ==
    /\ rt_pc = "idle"
    /\ rt_impl = "wrapper"
    /\ on_persistent_429 = FALSE
    /\ auth_type = "None"
    /\ attempt = 0
    /\ current_delay = 0
    /\ consecutive_429_count = 0
    /\ rt_calls = 0
    /\ rt_since_reset = 0
    /\ rt_last = NoAttempt

\* none of the operations checked on their own is in progress
AuxIdle ==
    /\ CompressIdle /\ BusIdle /\ SessionsIdle /\ ConfirmIdle /\ ScheduleIdle
    /\ RetryIdle

(***************************************************************************)
(* The session.                                                            *)
(***************************************************************************)
MainIdle ==
    /\ user_inputs = 0
    /\ next_task = "none"
    /\ driver = "none"
    /\ task = "none"
    /\ cancel_signal = FALSE
    /\ events = <<>>
    /\ pc = "none"
    /\ history = <<>>
    /\ current_user_input = "none"
    /\ pending_tool_calls = <<>>
    /\ max_turns = MAX_TURNS
    /\ model_calls = 0
    /\ model_parts = <<>>
    /\ stream_tool_calls = <<>>
    /\ stream_chunks = 0
    /\ chunks = 0
    /\ tg_pc = "idle"
    /\ tg_caller = "none"
    /\ incoming_requests = <<>>
    /\ tool_calls = <<>>
    /\ completed = <<>>

Init ==
    /\ MainIdle
    /\ AuxIdle
    /\ approval_mode \in {"default", "yolo"}
    /\ comprehensive_history = <<>>
    /\ scan_i = 1
    /\ curated_history = <<>>
    /\ cur_pc = "idle"
    /\ cur_pass = 0
    /\ curated_first = <<>>

\* values of `turns` a caller passes to send_message_stream
TurnsInputs == {0, 1}

Next ==
    \/ HandleUserInput
    \/ \E t \in TurnsInputs, c \in BOOLEAN : SendMessageStream(t, c)
    \/ HandleCancelStream
    \/ HandleUserInputWhileRunning
    \/ NextTaskStart
    \/ \E inline \in BOOLEAN : RunConversationCancelled(inline)
    \/ CancelSignalSet
    \/ RunConversationEnd
    \/ ProcessUserInput
    \/ \E o \in {"skip", "summary"} : CompressHistory(o)
    \/ CallModelBegin
    \/ CurateUserTurn
    \/ CurateModelRun
    \/ CurateReturn
    \/ \E ok \in BOOLEAN : CallModelOpenStream(ok)
    \/ \E p \in ChunkParts : StreamChunk(p)
    \/ StreamRaise
    \/ StreamEnd
    \/ \E a \in {"model", "user", "error"} : CheckContinuation(a)
    \/ ExecuteToolsBegin
    \/ ScheduleTools
    \/ \E k \in DOMAIN tool_calls, r \in {"success", "error"} :
           ExecuteSingleTool(k, r)
    \/ ExecuteToolsReturn
    \/ ExecuteToolsFinish
    \/ ReinvokeScheduler
    \/ ReinvokeReturn
    \/ \E c \in ConfirmationCallIds, o \in OutcomesSent :
           HandleToolConfirmation(c, o)
    \/ \E c \in ConfirmationCallIds, o \in OutcomesSent :
           HandleToolConfirmationMessage(c, o)

Spec == Init /\ [][Next]_vars

\* the event loop runs a coroutine that can take a step
SpecFair == Init /\ [][Next]_vars /\ WF_vars(Next)

(***************************************************************************)
(* Histories handed to the curator.                                        *)
(***************************************************************************)
ModelPartLists ==
    {<<>>, <<"text">>, <<"empty_text">>, <<"thought">>, <<"empty_obj">>,
     <<"function_call">>, <<"thought", "text">>, <<"text", "empty_text">>}

TurnShapes ==
    {Turn("user", <<"text">>), Turn("function", <<"function_response">>)}
        \cup {Turn("model", p) : p \in ModelPartLists}

Histories == UNION {[1..n -> TurnShapes] : n \in 0..MaxHistoryLen}

InitCurate ==
    /\ \E H \in Histories :
        /\ comprehensive_history = H
        /\ cur_pc = IF Len(H) = 0 THEN "done" ELSE "scan"
    /\ scan_i = 1
    /\ curated_history = <<>>
    /\ cur_pass = 1
    /\ curated_first = <<>>
    /\ MainIdle
    /\ AuxIdle
    /\ approval_mode = "default"

NextCurate == CurateStep \/ CurateAgain

SpecCurate == InitCurate /\ [][NextCurate]_vars

\* the curator is a synchronous function: while it can change its state it
\* does
SpecCurateFair == InitCurate /\ [][NextCurate]_vars /\ WF_vars(NextCurate)

(***************************************************************************)
(* C4                                                                      *)
(***************************************************************************)
CuratedModelTurns ==
    {k \in 1..Len(curated_history) : curated_history[k].role = "model"}

C5_CurationIdempotentOnEveryHistory ==
    <>(cur_pass = 2 /\ cur_pc = "done" /\ curated_history = curated_first)

\* where both passes return, the second result equals the first
CurationIdempotentWhereItReturns ==
    (cur_pass = 2 /\ cur_pc = "done") => curated_history = curated_first

\* out without its last user turn, if it has one
RECURSIVE DropLastUser(_)
DropLastUser(out) ==
    IF out = <<>> THEN <<>>
    ELSE IF out[Len(out)].role = "user" THEN SubSeq(out, 1, Len(out) - 1)
    ELSE Append(DropLastUser(SubSeq(out, 1, Len(out) - 1)), out[Len(out)])

\* the curation rule, turn by turn from position i: user and function turns
\* are emitted, a maximal run of model turns is emitted when all its turns
\* are valid and is dropped with the last emitted user turn otherwise
RECURSIVE CurationRule(_, _, _)
CurationRule(H, i, out) ==
    IF i > Len(H) THEN out
    ELSE IF H[i].role # "model" THEN CurationRule(H, i + 1, Append(out, H[i]))
    ELSE LET j == RunEnd(H, i)
             run == SubSeq(H, i, j - 1)
         IN IF \A k \in 1..Len(run) : IsValidContent(run[k])
            THEN CurationRule(H, j, out \o run)
            ELSE CurationRule(H, j, DropLastUser(out))

\* C29: on every history the curator returns what the curation rule gives:
\* user and function turns as they are, valid model runs kept, an invalid
\* run dropped together with the last emitted user turn.
C29_CurationFollowsRule ==
    <>(/\ cur_pass = 1
       /\ cur_pc = "done"
       /\ curated_history = CurationRule(comprehensive_history, 1, <<>>))

\* where the curator returns, its result is what the rule gives
CurationFollowsRuleWhereItReturns ==
    (cur_pass = 1 /\ cur_pc = "done") =>
        curated_history = CurationRule(comprehensive_history, 1, <<>>)

(***************************************************************************)
(* Histories handed to compression.                                        *)
(***************************************************************************)
CompressTurnShapes ==
    {Turn("user", <<"text">>), Turn("user", <<"long_text">>),
     Turn("model", <<"text">>), Turn("model", <<"long_text">>),
     Turn("model", <<"empty_text">>)}

CompressInputs == UNION {[1..n -> CompressTurnShapes] : n \in 0..MaxHistoryLen}

\* the client's history always starts with the preamble of _start_chat; the
\* node is handed the graph state's history
InitCompress ==
    /\ cmp_pc = "start"
    /\ cmp_fn \in {"try_compress_chat", "compress_history_node"}
    /\ \E extra \in CompressInputs :
           cmp_history = IF cmp_fn = "try_compress_chat"
                         THEN StartChatHistory(extra) ELSE extra
    /\ cmp_before = cmp_history
    /\ cmp_result = "none"
    /\ cmp_original = -1
    /\ cmp_new = -1
    /\ cmp_summary = "not_called"
    /\ cmp_events = <<>>
    /\ BusIdle
    /\ SessionsIdle
    /\ ConfirmIdle
    /\ ScheduleIdle
    /\ RetryIdle
    /\ MainIdle
    /\ approval_mode = "default"
    /\ comprehensive_history = <<>>
    /\ scan_i = 1
    /\ curated_history = <<>>
    /\ cur_pc = "idle"
    /\ cur_pass = 0
    /\ curated_first = <<>>

NextCompress ==
    \/ \E force \in BOOLEAN, limit \in TokenLimits, count \in CountOutcomes,
          summary \in SummaryOutcomes, recount \in CountOutcomes :
           TryCompressChat(force, limit, count, summary, recount)
    \/ SendMessageStreamCompressed
    \/ \E limit \in TokenLimits, count \in CountOutcomes,
          summary \in SummaryOutcomes :
           CompressHistoryNode(limit, count, summary)

SpecCompress == InitCompress /\ [][NextCompress]_vars

\* C11: when compression has replaced the history, the token count of the
\* curated history is strictly less than it was before; when it has not
\* succeeded the history is the one before the attempt.
C11_CompressionShrinksOrLeavesHistory ==
    cmp_pc = "done" =>
        IF cmp_history # cmp_before
        THEN TokenCount(ExtractCuratedHistory(cmp_history))
                 < TokenCount(ExtractCuratedHistory(cmp_before))
        ELSE cmp_result # "info"

\* C12: when the summary was empty or the summarization call raised, the
\* history is the one before the attempt and no chat_compressed event was
\* emitted.
C12_AbandonedCompressionLeavesHistory ==
    (cmp_pc = "done" /\ cmp_summary \in {"raise", "empty_text"}) =>
        /\ cmp_history = cmp_before
        /\ cmp_events = <<>>

\* the summarization call was made on a history over the threshold and
\* failed, for each of the two functions
C12_Witness ==
    /\ cmp_pc = "done"
    /\ cmp_summary \in {"raise", "empty_text"}
    /\ cmp_original > 0
    /\ Len(cmp_before) > 1

(***************************************************************************)
(* The event bus on its own.                                               *)
(***************************************************************************)
InitBus ==
    /\ bus_pc = "open"
    /\ bus_websocket \in BOOLEAN
    /\ bus_emitted = <<>>
    /\ bus_sending = [p \in Producers |-> 0]
    /\ bus_ws = <<>>
    /\ bus_queue = <<>>
    /\ bus_subs = <<>>
    /\ bus_done = <<>>
    /\ CompressIdle
    /\ SessionsIdle
    /\ ConfirmIdle
    /\ ScheduleIdle
    /\ RetryIdle
    /\ MainIdle
    /\ approval_mode = "default"
    /\ comprehensive_history = <<>>
    /\ scan_i = 1
    /\ curated_history = <<>>
    /\ cur_pc = "idle"
    /\ cur_pass = 0
    /\ curated_first = <<>>

NextBus ==
    \/ \E p \in Producers : EmitCall(p)
    \/ \E p \in Producers : EmitDeliver(p)
    \/ Subscribe

SpecBus == InitBus /\ [][NextBus]_vars

\* a consumer saw its events in emission order
InEmissionOrder(seen) ==
    \A i, j \in 1..Len(seen) : i < j => seen[i] < seen[j]

\* C15: the front-end channel, the internal queue and every subscriber
\* observe the events in the order in which they were emitted.
C15_DeliveredInEmissionOrder ==
    /\ InEmissionOrder(bus_ws)
    /\ InEmissionOrder(bus_queue)
    /\ \A k \in 1..Len(bus_subs) : InEmissionOrder(bus_subs[k].got)

InitSessions ==
    /\ ses_pc = "open"
    /\ sessions = {}
    /\ ses_stage = [s \in SessionIds |-> "none"]
    /\ ses_tool = [s \in SessionIds |-> "none"]
    /\ server_statuses = [n \in McpServers |-> "absent"]
    /\ discovery_state = "not_started"
    /\ ses_actor = 0
    /\ CompressIdle
    /\ BusIdle
    /\ ConfirmIdle
    /\ ScheduleIdle
    /\ RetryIdle
    /\ MainIdle
    /\ approval_mode = "default"
    /\ comprehensive_history = <<>>
    /\ scan_i = 1
    /\ curated_history = <<>>
    /\ cur_pc = "idle"
    /\ cur_pass = 0
    /\ curated_first = <<>>

NextSessions ==
    \/ \E s \in SessionIds : CreateSession(s)
    \/ \E s \in SessionIds, ok, trust \in BOOLEAN :
           ConnectAndDiscover(s, ok, trust)
    \/ \E s \in SessionIds : CreateSessionReturn(s)
    \/ \E s \in SessionIds : EndSession(s)

SpecSessions == InitSessions /\ [][NextSessions]_vars

\* C21: a step taken by one session leaves what every other open session
\* observes unchanged.
C21_SessionsShareNoMutableState ==
    [][\A t \in sessions :
           t # ses_actor' => Observed(t)' = Observed(t)]_vars

(***************************************************************************)
(* The tool execution graph on its own.                                    *)
(***************************************************************************)
RequestLists ==
    UNION {[1..n -> ScheduleToolNames \X ArgsKinds] : n \in 1..MaxRequests}

InitSchedule ==
    /\ sch_pc = "schedule_tools"
    /\ sch_mode \in ApprovalModes
    /\ \E L \in RequestLists :
           sch_requests = [k \in 1..Len(L) |->
                              RequestWithArgs(k - 1, L[k][1], L[k][2])]
    /\ sch_calls = <<>>
    /\ sch_executed = {}
    /\ sch_events = <<>>
    /\ CompressIdle
    /\ BusIdle
    /\ SessionsIdle
    /\ ConfirmIdle
    /\ RetryIdle
    /\ MainIdle
    /\ approval_mode = "default"
    /\ comprehensive_history = <<>>
    /\ scan_i = 1
    /\ curated_history = <<>>
    /\ cur_pc = "idle"
    /\ cur_pass = 0
    /\ curated_first = <<>>

NextSchedule ==
    \/ ScheduleToolsNode
    \/ \E k \in DOMAIN sch_calls, raised \in BOOLEAN :
           ExecuteScheduledTool(k, raised)
    \/ ExecuteToolsNodeReturn

SpecSchedule == InitSchedule /\ [][NextSchedule]_vars

\* the call is one the validate phase has to reject
FailsValidation(req) == ~Registered(req.name) \/ req.args = "invalid"

\* C24: a call whose tool is not registered, or whose args the tool's
\* validation rejects, is a terminal error as soon as it is scheduled, and
\* its tool is never executed.
C24_InvalidRequestsEndInError ==
    \A k \in 1..Len(sch_calls) :
        FailsValidation(sch_calls[k].request) =>
            /\ sch_calls[k].status = "error"
            /\ sch_calls[k].request.call_id \notin sch_executed

\* the part of C24 about the registry: a call whose tool is not registered
\* is a terminal error and is never gated or executed
UnregisteredEndInError ==
    \A k \in 1..Len(sch_calls) :
        ~Registered(sch_calls[k].request.name) =>
            /\ sch_calls[k].status = "error"
            /\ sch_calls[k].request.call_id \notin sch_executed

\* schedule_tools_node has returned and no tool has been executed yet
JustScheduled ==
    /\ sch_pc \in {"interrupted", "execute_tools"}
    /\ sch_executed = {}

AwaitingCallIds(calls) ==
    LET waiting == SelectSeq(calls, LAMBDA c : c.status = "awaiting_approval")
    IN [k \in 1..Len(waiting) |-> waiting[k].request.call_id]

\* C26: when the tool graph stops for approval, one tool_call_confirmation
\* event has been emitted for each awaiting call, in request order.
C26_ConfirmationEventPerAwaitingCall ==
    sch_pc = "interrupted" =>
        CallIdsOfEvents(sch_events, "tool_call_confirmation")
            = AwaitingCallIds(sch_calls)

(***************************************************************************)
(* Properties of the session.                                              *)
(***************************************************************************)
\* a cancellation request has been made in this run
CancelObserved == cancel_signal \/ task \in {"cancelling", "cancelled"}

\* the tool graph run started by the conversation graph has handed its
\* state back to execute_tools_node, which has returned
HandedBack == tg_caller = "conv" /\ tg_pc = "idle"

ResponseEventsFor(call_id) ==
    {k \in EventsOfType(events, "tool_call_response") :
        events[k].call_id = call_id}

ContentEvents(evs) == {k \in 1..Len(evs) : evs[k] = ContentEvent}

\* C1: once the tool phase has handed its results back to the turn loop
\* (and so at every later model call) every ToolCall of the batch is in a
\* terminal state.
C1_ResumeOnlyWhenAllTerminal == HandedBack => AllTerminal(tool_calls)

\* C2: once the tool phase is over, exactly one tool_call_response event has
\* been emitted for every tool call the model requested.
C2_ExactlyOneResponseEvent ==
    HandedBack =>
        \A k \in 1..Len(incoming_requests) :
            Cardinality(ResponseEventsFor(incoming_requests[k].call_id)) = 1

\* C3: a run never makes more model calls than its maxTurns.
C3_AtMostMaxTurnsModelCalls == model_calls <= max_turns

\* C6: while the scheduler runs again on a state whose calls are all
\* terminal, no ToolCall is added, removed or changed.
C6_ReinvokeIsNoOp ==
    [][(tg_caller = "direct" /\ tg_caller' = "direct")
          => tool_calls' = tool_calls]_vars

\* C7: a model turn is appended whole or not at all: while a model stream is
\* open, and after it was cut by cancellation, the history is what it was
\* when the model call began; once the stream has ended it is that history
\* plus the one turn built from everything the stream delivered.
C7_NoPartialModelTurn ==
    /\ pc \in {"streaming", "stream_cancelled"}
          => history = comprehensive_history
    /\ pc \in {"check_continuation", "execute_tools"}
          => history = HistoryAfterStream(comprehensive_history,
                           curated_history, model_parts, stream_tool_calls)

\* a stream cut by cancellation after it delivered chunks that carry parts
C7_Witness ==
    /\ pc = "stream_cancelled"
    /\ task = "cancelled"
    /\ stream_chunks > 0
    /\ model_parts # <<>>

\* C8: with the cancellation signal set during a tool phase, a ToolCall that
\* was not terminal and becomes terminal becomes cancelled.
C8_CancelledCallsEndCancelled ==
    [][(cancel_signal /\ tg_caller = "conv" /\ tg_pc = "execute_tools")
          => \A k \in DOMAIN tool_calls \cap DOMAIN tool_calls' :
                 (/\ tool_calls[k].status \in NonTerminalStatuses
                  /\ tool_calls'[k].status \in TerminalStatuses)
                     => tool_calls'[k].status = "cancelled"]_vars

\* C9: a turn whose task was cancelled has a user_cancelled event, and
\* neither an error nor a turn_complete event.
C9_CancelledTurnReported ==
    task = "cancelled" =>
        /\ EventsOfType(events, "user_cancelled") # {}
        /\ EventsOfType(events, "error") = {}
        /\ EventsOfType(events, "turn_complete") = {}

\* C10: with cancellation requested before the first chunk of an open model
\* stream, no step emits a content event.
C10_NoContentAfterEarlyCancel ==
    [][(CancelObserved /\ pc = "streaming" /\ stream_chunks = 0)
          => ContentEvents(events') = ContentEvents(events)]_vars

CallIdsOfRequests(reqs) == [k \in 1..Len(reqs) |-> reqs[k].call_id]

\* the tool graph run started by the conversation graph has reached END
ToolGraphAtEnd == tg_caller = "conv" /\ tg_pc = "returned"

\* the final ToolCall[] holds one record per incoming request, in the order
\* of the requests
ToolCallsInRequestOrder ==
    ToolGraphAtEnd =>
        /\ Len(tool_calls) = Len(incoming_requests)
        /\ \A k \in 1..Len(tool_calls) :
               tool_calls[k].request = incoming_requests[k]

\* C13: when the tool graph has finished, the final ToolCall[] and the
\* emitted tool_call_response events both follow the order of the incoming
\* requests.
C13_ResultsInRequestOrder ==
    ToolGraphAtEnd =>
        /\ Len(tool_calls) = Len(incoming_requests)
        /\ \A k \in 1..Len(tool_calls) :
               tool_calls[k].request = incoming_requests[k]
        /\ CallIdsOfEvents(events, "tool_call_response")
               = CallIdsOfRequests(incoming_requests)

\* C14: when the first model call of a run has returned with function calls,
\* the tool_call_request events emitted are one per functionCall part, in the
\* order of the parts.
C14_RequestEventsFollowFunctionCalls ==
    (pc = "execute_tools" /\ model_calls = 1) =>
        CallIdsOfEvents(events, "tool_call_request")
            = CallIdsOfRequests(pending_tool_calls)

\* C17: the tool phase is entered only with pending tool calls, and the
\* scheduler the conversation invokes is always given at least one request.
C17_NoToolCallsNoScheduler ==
    /\ pc = "execute_tools" => pending_tool_calls # <<>>
    /\ (tg_caller = "conv" /\ tg_pc # "idle") => incoming_requests # <<>>

\* a model turn without tool calls has ended and no tool state exists
C17_Witness ==
    /\ pc = "check_continuation"
    /\ model_calls >= 1
    /\ pending_tool_calls = <<>>
    /\ tg_pc = "idle"
    /\ tool_calls = <<>>

\* C18: a request whose maxTurns is 0 has a turnComplete event and no model
\* call once send_message_stream has returned.
C18_ZeroTurnsEmitsTurnComplete ==
    (driver = "client" /\ max_turns = 0 /\ task = "done") =>
        /\ EventsOfType(events, "turn_complete") # {}
        /\ model_calls = 0

\* C19 as stated: pendingToolCalls is non-empty only after a model call
\* has returned and before its calls are handed to the tool scheduler.
C19_PendingOnlyBeforeDispatch ==
    pending_tool_calls # <<>> => (pc = "execute_tools" /\ tg_pc = "idle")

\* C19 amended: pendingToolCalls is non-empty only from the return of a
\* model call that asked for tools until the tool phase of those calls has
\* returned, or after a cancellation has ended the turn during that phase.
C19_PendingOnlyUntilToolPhaseReturns ==
    pending_tool_calls # <<>> =>
        /\ pc \in {"execute_tools", "graph_cancelled"}
        /\ model_calls >= 1

\* the scheduler is running on the dispatched calls and they are still pending
C19_Witness ==
    /\ pc = "execute_tools"
    /\ tg_caller = "conv"
    /\ tg_pc = "execute_tools"
    /\ pending_tool_calls # <<>>
    /\ incoming_requests = pending_tool_calls

IsPrefix(s, t) == Len(s) <= Len(t) /\ SubSeq(t, 1, Len(s)) = s

\* the step is compress_history_node replacing the history by a summary
CompressionStep ==
    /\ pc = "compress_history"
    /\ history' = SummaryHistory("text")

\* C20: every step of a session other than a compression leaves the
\* previous history as a prefix of the new one, from one user input to the
\* next as well.
C20_HistoryAppendOnly ==
    [][IsPrefix(history, history') \/ CompressionStep]_vars

\* the same within the task of one user input
HistoryAppendOnlyWithinOneInput ==
    [][user_inputs' = user_inputs =>
           (IsPrefix(history, history') \/ CompressionStep)]_vars

\* a tool phase of the conversation has ended in which a tool body raised
ToolBodyRaised ==
    /\ pc = "call_model"
    /\ tg_caller = "conv"
    /\ tg_pc = "idle"
    /\ model_calls = 1
    /\ \E k \in 1..Len(tool_calls) :
           completed[k] = "error" /\ tool_calls[k].status = "error"

\* C22: after a tool phase in which a tool body raised, the call is a
\* terminal error with its response in the history and the turn goes on to
\* the next model call (runs in which the scheduler is invoked once more are
\* left aside).
C22_ToolFailureTurnContinues ==
    [](ToolBodyRaised =>
           /\ history # <<>>
           /\ history[Len(history)].role = "function"
           /\ <>(model_calls = 2 \/ tg_caller = "direct"))

\* the other calls of a batch are not affected by the call that raised
OtherCallsUnaffected ==
    tg_pc = "returned" =>
        \A k \in 1..Len(tool_calls) :
            completed[k] = "success" => tool_calls[k].status = "success"

\* C23: once a tool confirmation response has been handled while no
\* suspended tool state existed, an error event with status "invalid_state"
\* has been emitted and no tool has been started by it.
C23_MissingStateSurfacedAsError ==
    confirmation.result \in {"raised_invalid_state", "logged"} =>
        /\ \E k \in 1..Len(events) : events[k] = InvalidStateErrorEvent
        /\ tg_caller # "direct"

\* the calls of the tool graph's state that the response handled by
\* handle_tool_confirmation names
AnsweredCalls ==
    {k \in 1..Len(tool_calls) :
        /\ driver = "client"
        /\ tool_calls[k].request.call_id = confirmation.call_id}

\* C27: once a cancel outcome has been handled for a call, the call is not
\* left awaiting approval: it is cancelled, and a function turn with its
\* response is in the history.
C27_CancelOutcomeCancelsCall ==
    (confirmation.outcome = "cancel" /\ AnsweredCalls # {}) =>
        /\ \A k \in AnsweredCalls : tool_calls[k].status = "cancelled"
        /\ \E i \in 1..Len(history) : history[i].role = "function"

\* C28: once a modify_with_editor outcome has been handled for a call, the
\* call has been treated as approved: it is scheduled or has been executed.
C28_ModifyOutcomeTreatedAsApprove ==
    (confirmation.outcome = "modify_with_editor" /\ AnsweredCalls # {}) =>
        \A k \in AnsweredCalls :
            tool_calls[k].status \in {"scheduled", "executing", "success", "error"}

\* C30: every step that leads to a model call of the turn loop is the
\* compression check: call_model is entered from compress_history only.
C30_CompressionBeforeEveryModelCall ==
    [][(pc' = "call_model" /\ pc # "call_model") => pc = "compress_history"]_vars

\* the first model call of a run is preceded by the compression check
CompressionBeforeFirstModelCall ==
    [][(pc' = "call_model" /\ pc # "call_model" /\ model_calls = 0)
          => pc = "compress_history"]_vars

\* C31: a model call that follows a "model" answer of the next-speaker check
\* (a second model call with no tool phase before it) is made with the
\* "Please continue." input appended to the history as the last user turn and
\* current_user_input cleared.
C31_ContinueInputAppendedBeforeModelCall ==
    [][(/\ model_calls' = model_calls + 1
        /\ model_calls >= 1
        /\ tg_caller = "none")
          => /\ current_user_input = "none"
             /\ history # <<>>
             /\ history[Len(history)].role = "user"]_vars

\* the "model" answer does set current_user_input to the continuation input
ContinueInputSet ==
    [][(pc = "check_continuation" /\ pc' = "call_model"
            /\ history[Len(history)].role = "model")
          => current_user_input' = "continue"]_vars

(***************************************************************************)
(* A call under each retry policy.                                         *)
(***************************************************************************)
InitRetry ==
    /\ rt_pc = "loop"
    /\ rt_impl \in {"wrapper", "function"}
    /\ on_persistent_429 \in BOOLEAN
    /\ auth_type \in {"None", "oauth-personal"}
    /\ attempt = 0
    /\ current_delay = InitialDelay
    /\ consecutive_429_count = 0
    /\ rt_calls = 0
    /\ rt_since_reset = 0
    /\ rt_last = NoAttempt
    /\ CompressIdle
    /\ BusIdle
    /\ SessionsIdle
    /\ ConfirmIdle
    /\ ScheduleIdle
    /\ MainIdle
    /\ approval_mode = "default"
    /\ comprehensive_history = <<>>
    /\ scan_i = 1
    /\ curated_history = <<>>
    /\ cur_pc = "idle"
    /\ cur_pass = 0
    /\ curated_first = <<>>

NextRetry ==
    \/ \E outcome \in WorkErrors \cup {"ok"}, retry_after \in RetryAfterHeaders,
          fallback \in FallbackOutcomes, j \in Jitters :
           WrapperAttempt(outcome, retry_after, fallback, j)
    \/ \E outcome \in WorkErrors \cup {"ok"}, retry_after \in RetryAfterHeaders,
          fallback \in FallbackOutcomes :
           RetryWithBackoffAttempt(outcome, retry_after, fallback)

SpecRetry == InitRetry /\ [][NextRetry]_vars

\* the loop of a policy is not suspended for ever
SpecRetryFair == SpecRetry /\ WF_vars(NextRetry)

\* C32: when a failed attempt is the second consecutive 429 or a later one,
\* and a fallback handler and an auth type were given, the handler is called
\* with the auth type; when it returns a model id the attempt counter is back
\* at zero and the delay back at the initial delay.
C32_FallbackResetsAttemptAndDelay ==
    (/\ rt_last.error = "429"
     /\ rt_last.count_429 >= 2
     /\ on_persistent_429
     /\ auth_type # "None")
        => /\ rt_last.handler_arg = auth_type
           /\ rt_last.fallback = "model"
                  => /\ attempt = 0
                     /\ current_delay = InitialDelay

\* the wrapper of gemini_cli_core/utils/retry.py does so
WrapperFallbackResets ==
    rt_impl = "wrapper" => C32_FallbackResetsAttemptAndDelay

\* the sleep and the delay the policy owes after a failed attempt it retries
SleepAsSpecified ==
    IF rt_last.retry_after >= 0
    THEN /\ rt_last.slept = rt_last.retry_after * 1000
         /\ current_delay = InitialDelay
    ELSE /\ 10 * rt_last.slept >= 7 * rt_last.delay_before
         /\ 10 * rt_last.slept <= 13 * rt_last.delay_before
         /\ current_delay = Min(MaxDelay, 2 * rt_last.delay_before)

\* C33: after a failed attempt that is retried (the fallback's restart
\* aside), the policy has slept the Retry-After duration and reset the delay
\* when the error has a Retry-After, and has otherwise slept the current delay
\* within 30% and then doubled it; the delay starts at the initial delay and
\* never exceeds the maximum delay.
C33_SleepsRetryAfterOrBackoff ==
    /\ (rt_pc = "loop" /\ rt_calls = 0) => current_delay = InitialDelay
    /\ current_delay <= MaxDelay
    /\ (rt_last.retried /\ ~rt_last.reset) => SleepAsSpecified

\* the wrapper of gemini_cli_core/utils/retry.py does so unless the
\* Retry-After is zero
WrapperSleepsRetryAfterOrBackoff ==
    (rt_impl = "wrapper" /\ rt_last.retry_after # 0)
        => C33_SleepsRetryAfterOrBackoff

\* with a Retry-After of zero the wrapper backs off as if there were none
WrapperHonoursRetryAfterZero ==
    (rt_impl = "wrapper" /\ rt_last.retry_after = 0)
        => C33_SleepsRetryAfterOrBackoff

\* the call under the policy is over: the work's result or the last error
\* has been handed to the caller
RetryOver == rt_pc \in {"returned", "raised"}

\* C38: every call under a retry policy ends, whatever the failures of the
\* work and whatever the fallback handler does, and the work is invoked at
\* most maxAttempts times between two restarts by the fallback.
C38_RetryAlwaysTerminates ==
    /\ [](rt_since_reset <= MaxAttempts)
    /\ <>RetryOver

\* between two restarts by the fallback the work is invoked at most
\* maxAttempts times
AtMostMaxAttemptsBetweenResets == rt_since_reset <= MaxAttempts

\* the function of utils/retry.py ends after at most max_retries + 1
\* invocations of the work
FunctionRetryBounded ==
    rt_impl = "function" => /\ rt_calls <= max_retries + 1
                            /\ attempt <= max_retries + 1

\* a call whose fallback handler never gives a model ends
EndsWithoutFallbackReset ==
    <>(RetryOver \/ rt_last.reset)

\* mcp_tool.py should_confirm_execute (60-61): the key of the trust set an
\* outcome stands for, for the tool "tool" of server "srv"
AllowlistKey(outcome) ==
    IF outcome = "proceed_always_server" THEN "srv" ELSE "srv.tool"

\* C34: once a response with an "always approve" outcome has been handled by
\* handle_tool_confirmation, the key of the server or of the tool is in the
\* trust set, so that should_confirm_execute returns False for it.
C34_AlwaysApproveAddsToTrustSet ==
    (driver = "client" /\ confirmation.outcome \in AlwaysApproveOutcomes)
        => AllowlistKey(confirmation.outcome) \in allowlist

\* C35: a user_input that arrives during a turn starts no second turn beside
\* it: the task it creates runs only when the graph of the turn before it
\* has stopped running.
C35_OneTurnAtATime ==
    next_task = "running" => ~GraphRunning

\* the new task does not start before the task before it has ended
NextTaskStartsAfterTaskEnded ==
    next_task = "running" => task = "cancelled"

\* the events of the session hold an error event
ErrorEmitted == \E k \in 1..Len(events) : events[k] = ErrorEvent

IterationConsumesTurn ==
    (cur_pc = "scan" /\ scan_i <= Len(comprehensive_history))
        => \/ comprehensive_history[scan_i].role = "user"
           \/ RunEnd(comprehensive_history, scan_i) > scan_i

\* C37: extract_curated_history returns on every history of user, model and
\* function turns, and every turn of its loop consumes at least one turn of
\* the history.
C37_CurationTerminates ==
    <>(cur_pass = 1 /\ cur_pc = "done" /\ scan_i > Len(comprehensive_history))

\* on the histories without a function turn the curator returns
NoFunctionTurn ==
    \A k \in 1..Len(comprehensive_history) :
        comprehensive_history[k].role # "function"

CurationTerminatesWithoutFunctionTurns ==
    NoFunctionTurn => <>(cur_pass = 1 /\ cur_pc = "done")

\* should_confirm_execute was asked about the call and returned confirmation
\* details (schedule_tools_node 182-199)
ConfirmationAsked(call) ==
    /\ approval_mode # "yolo"
    /\ Registered(call.request.name)
    /\ ShouldConfirmExecute(call.request.name)

\* an approving outcome has been taken for the call id
Approved(call_id) ==
    /\ confirmation.result = "resumed"
    /\ confirmation.call_id = call_id
    /\ confirmation.outcome \in {"approve", "modify_with_editor"}

\* tool.execute has been called for the k-th call of the tool graph: it is
\* one of the tasks execute_tools_node gathered
Executed(k) == k \in DOMAIN completed /\ completed[k] # "none"

\* C39: a call about which should_confirm_execute returned confirmation
\* details is not executed unless an approving outcome has been taken for its
\* call id; in particular a call the user answered with cancel is not executed.
C39_UnapprovedCallsNeverExecuted ==
    \A k \in 1..Len(tool_calls) :
        (ConfirmationAsked(tool_calls[k])
            /\ ~Approved(tool_calls[k].request.call_id))
          => ~Executed(k)

\* the tool graph has returned to the conversation graph with a call that
\* waited for approval, the user has answered cancel for it, and the call has
\* not been executed
C39_Witness ==
    /\ driver = "client"
    /\ confirmation.outcome = "cancel"
    /\ \E k \in 1..Len(tool_calls) :
           /\ tool_calls[k].request.call_id = confirmation.call_id
           /\ ConfirmationAsked(tool_calls[k])
           /\ tool_calls[k].status \in {"awaiting_approval", "cancelled"}
           /\ ~Executed(k)
    /\ tg_pc = "idle"
    /\ pc # "execute_tools"

\* calls of one batch that wait for approval
AwaitingCalls ==
    {k \in 1..Len(tool_calls) : tool_calls[k].status = "awaiting_approval"}

\* C40: while several calls of a batch wait for approval the turn stays
\* suspended in the tool phase: the conversation graph does not go on to the
\* next model call, and the calls keep waiting until each has its outcome.
C40_SuspendedUntilEveryOutcome ==
    (tg_caller = "conv" /\ Cardinality(AwaitingCalls) >= 2)
        => pc = "execute_tools"

\* with calls waiting for approval the tool graph itself executes nothing
NothingExecutedWhileAwaiting ==
    AwaitingCalls # {} => \A k \in 1..Len(tool_calls) : ~Executed(k)

====
